---- MODULE Spec2Model ----
(***************************************************************************)
(* Receipt-processing pipeline of receipt_app: file classification         *)
(* (processing/validation.py), file landing area (processing/ingestion.py),*)
(* text acquisition (processing/ocr_utils.py), rule-based field extraction *)
(* and orchestration (processing/parsing.py), schema validation            *)
(* (processing/validation.py), the upload loop (ui/pages/upload.py), the   *)
(* receipt store (database/crud.py) and the login session                  *)
(* (ui/auth_manager.py).                                                   *)
(*                                                                         *)
(* Texts and file names are strings; a character is a string of length 1.  *)
(* Amounts are exact decimals held as an integer number of hundredths.     *)
(* Dates are records [y, m, d].                                            *)
(***************************************************************************)
EXTENDS Integers, Sequences, FiniteSets, TLC

(***************************************************************************)
(* Characters and strings (Python str methods used by the source).         *)
(***************************************************************************)
Ch(s, i) == SubSeq(s, i, i)

UpperLetters == "ABCDEFGHIJKLMNOPQRSTUVWXYZ"
LowerLetters == "abcdefghijklmnopqrstuvwxyz"
DigitChars == {"0", "1", "2", "3", "4", "5", "6", "7", "8", "9"}
UpperSet == {Ch(UpperLetters, i) : i \in 1..26}
LowerSet == {Ch(LowerLetters, i) : i \in 1..26}
LetterSet == UpperSet \cup LowerSet
\* str.isspace / regex \s
SpaceChars == {" ", "\n", "\t", "\r"}
\* regex \w
WordChars == LetterSet \cup DigitChars \cup {"_"}

LetterIndex(c, alphabet) == CHOOSE i \in 1..26 : Ch(alphabet, i) = c

\* str.lower() / str.upper() on one character
LowerCh(c) == IF c \in UpperSet THEN Ch(LowerLetters, LetterIndex(c, UpperLetters)) ELSE c
UpperCh(c) == IF c \in LowerSet THEN Ch(UpperLetters, LetterIndex(c, LowerLetters)) ELSE c

\* the characters lo..hi of s, each lowered (raised); the range is halved
\* so that the recursion stays shallow
RECURSIVE MapLower(_, _, _)
MapLower(s, lo, hi) ==
    IF lo > hi THEN ""
    ELSE IF lo = hi THEN LowerCh(Ch(s, lo))
    ELSE MapLower(s, lo, (lo + hi) \div 2) \o MapLower(s, (lo + hi) \div 2 + 1, hi)
RECURSIVE MapUpper(_, _, _)
MapUpper(s, lo, hi) ==
    IF lo > hi THEN ""
    ELSE IF lo = hi THEN UpperCh(Ch(s, lo))
    ELSE MapUpper(s, lo, (lo + hi) \div 2) \o MapUpper(s, (lo + hi) \div 2 + 1, hi)
\* str.lower(), str.upper()
Lower(s) == MapLower(s, 1, Len(s))
Upper(s) == MapUpper(s, 1, Len(s))

\* str.strip(): leading and trailing whitespace removed
RECURSIVE LStripFrom(_, _)
LStripFrom(s, i) ==
    IF i > Len(s) THEN ""
    ELSE IF Ch(s, i) \in SpaceChars THEN LStripFrom(s, i + 1)
    ELSE SubSeq(s, i, Len(s))
RECURSIVE RStripTo(_, _)
RStripTo(s, j) ==
    IF j < 1 THEN ""
    ELSE IF Ch(s, j) \in SpaceChars THEN RStripTo(s, j - 1)
    ELSE SubSeq(s, 1, j)
RStrip(s) == RStripTo(s, Len(s))
Strip(s) == RStrip(LStripFrom(s, 1))

\* str.replace(c, '') for a set of single characters
RECURSIVE RemoveFrom(_, _, _, _)
RemoveFrom(s, cs, lo, hi) ==
    IF lo > hi THEN ""
    ELSE IF lo = hi THEN (IF Ch(s, lo) \in cs THEN "" ELSE Ch(s, lo))
    ELSE RemoveFrom(s, cs, lo, (lo + hi) \div 2)
         \o RemoveFrom(s, cs, (lo + hi) \div 2 + 1, hi)
RemoveChars(s, cs) == RemoveFrom(s, cs, 1, Len(s))

\* position of the first occurrence of character c at or after i, 0 if none
Least(ks) == CHOOSE k \in ks : \A j \in ks : k <= j
Greatest(ks) == CHOOSE k \in ks : \A j \in ks : k >= j
LeastOr0(ks) == IF ks = {} THEN 0 ELSE Least(ks)
\* a loop that returns at its first success: tried[j] is the outcome of pass j
FirstOk(tried) ==
    LET Pass(j) == IF j = 0 THEN [ok |-> FALSE] ELSE tried[j]
    IN  Pass(LeastOr0({j \in DOMAIN tried : tried[j].ok}))
GreatestOr0(ks) == IF ks = {} THEN 0 ELSE Greatest(ks)
IndexOfCh(s, c, i) == LeastOr0({k \in i..Len(s) : Ch(s, k) = c})

\* position of the last occurrence of character c at or before j, 0 if none
LastIndexOfCh(s, c, j) == GreatestOr0({k \in 1..j : Ch(s, k) = c})

\* str.split(c): the pieces between occurrences of the character c
RECURSIVE SplitFrom(_, _, _)
SplitFrom(s, c, i) ==
    LET CutAt(k) == IF k = 0 THEN <<SubSeq(s, i, Len(s))>>
                    ELSE <<SubSeq(s, i, k - 1)>> \o SplitFrom(s, c, k + 1)
    IN  CutAt(IndexOfCh(s, c, i))
Split(s, c) == SplitFrom(s, c, 1)

\* the Python test `sub in s`
Contains(s, sub) ==
    \E i \in 1..(Len(s) - Len(sub) + 1) : SubSeq(s, i, i + Len(sub) - 1) = sub

\* int() of a string of decimal digits
RECURSIVE DigitsToInt(_, _)
DigitsToInt(s, j) ==
    IF j < 1 THEN 0
    ELSE 10 * DigitsToInt(s, j - 1)
         + (CHOOSE d \in 0..9 : Ch("0123456789", d + 1) = Ch(s, j))
ToInt(s) == DigitsToInt(s, Len(s))

AllDigits(s) == \A i \in 1..Len(s) : Ch(s, i) \in DigitChars

(***************************************************************************)
(* Regular expressions as Python's re module matches them: a backtracking  *)
(* matcher tries the ways a pattern can match in priority order (leftmost  *)
(* start, alternatives left to right, greedy repetition) and returns the   *)
(* first.  Results lists every way a pattern matches from one position, in *)
(* that order, so its first element is the match Python returns.           *)
(***************************************************************************)
Lit(s) == [t |-> "lit", s |-> s]
Cls(cs) == [t |-> "cls", s |-> cs]
NotCls(cs) == [t |-> "ncls", s |-> cs]
Dot == [t |-> "dot"]
Cat(a) == [t |-> "cat", a |-> a]
Alt(a) == [t |-> "alt", a |-> a]
\* the source's patterns repeat one-character patterns only
Rep(r, lo, hi) == [t |-> "rep", r |-> r, lo |-> lo, hi |-> hi]
Grp(n, r) == [t |-> "grp", n |-> n, r |-> r]
\* r* and r+ : greedy repetition without an upper limit
Star(r) == [t |-> "star", r |-> r, lo |-> 0]
Plus(r) == [t |-> "star", r |-> r, lo |-> 1]
Opt(r) == Rep(r, 0, 1)
\* alternation of literal words, in the order written
Words(ws) == Alt([i \in 1..Len(ws) |-> Lit(ws[i])])

NoMatch == [ok |-> FALSE]
NoGroups == <<<<0, 0>>, <<0, 0>>, <<0, 0>>, <<0, 0>>, <<0, 0>>>>

ClsHas(cs, c, ic) == c \in cs \/ (ic /\ (LowerCh(c) \in cs \/ UpperCh(c) \in cs))
StrEq(a, b, ic) == IF ic THEN Lower(a) = Lower(b) ELSE a = b

\* a pattern that matches one character, and whether it matches c
Single(re) == re.t \in {"cls", "ncls", "dot"} \/ (re.t = "lit" /\ Len(re.s) = 1)
CharOk(re, c, ic) ==
    CASE re.t = "cls" -> ClsHas(re.s, c, ic)
      [] re.t = "ncls" -> ~ClsHas(re.s, c, ic)
      [] re.t = "dot" -> c # "\n"
      [] re.t = "lit" -> StrEq(c, re.s, ic)
\* how many characters from position i on the one-character pattern matches
RunLength(re, s, i, ic) ==
    Least({n \in 0..(Len(s) - i + 1) :
             n = Len(s) - i + 1 \/ ~CharOk(re, Ch(s, i + n), ic)})
AtMost(n, hi) == IF n < hi THEN n ELSE hi

\* a match in progress: the position after it and the groups closed so far
At(i, g) == [e |-> i, g |-> g]
\* a greedy repetition that can take n characters: n down to lo of them
Counts(i, n, lo, g) ==
    IF n < lo THEN << >> ELSE [k \in 1..(n - lo + 1) |-> At(i + n - k + 1, g)]
\* group n spans from i to the end of each match of its pattern
Closed(rs, n, i) ==
    [k \in 1..Len(rs) |-> At(rs[k].e, [rs[k].g EXCEPT ![n] = <<i, rs[k].e>>])]

\* the concatenation of seqs[lo], ..., seqs[hi]
RECURSIVE Flatten(_, _, _)
Flatten(seqs, lo, hi) ==
    IF lo > hi THEN << >>
    ELSE IF lo = hi THEN seqs[lo]
    ELSE Flatten(seqs, lo, (lo + hi) \div 2) \o Flatten(seqs, (lo + hi) \div 2 + 1, hi)

RECURSIVE Results(_, _, _, _, _)
\* the ways nodes[lo], ..., nodes[hi] match one after the other, starting from
\* each of the matches in progress
RECURSIVE Chain(_, _, _, _, _, _)
Chain(nodes, lo, hi, s, started, ic) ==
    IF Len(started) = 0 \/ lo > hi THEN started
    ELSE IF lo = hi
    THEN Flatten([k \in 1..Len(started) |->
                     Results(nodes[lo], s, started[k].e, started[k].g, ic)],
                 1, Len(started))
    ELSE Chain(nodes, (lo + hi) \div 2 + 1, hi, s,
               Chain(nodes, lo, (lo + hi) \div 2, s, started, ic), ic)

Results(re, s, i, g, ic) ==
    CASE Single(re) ->
           IF i <= Len(s) /\ CharOk(re, Ch(s, i), ic) THEN <<At(i + 1, g)>> ELSE << >>
      [] re.t = "lit" /\ ~Single(re) ->
           IF /\ i + Len(re.s) - 1 <= Len(s)
              /\ StrEq(SubSeq(s, i, i + Len(re.s) - 1), re.s, ic)
           THEN <<At(i + Len(re.s), g)>>
           ELSE << >>
      [] re.t = "cat" -> Chain(re.a, 1, Len(re.a), s, <<At(i, g)>>, ic)
      [] re.t = "alt" ->
           Flatten([a \in 1..Len(re.a) |-> Results(re.a[a], s, i, g, ic)], 1, Len(re.a))
      [] re.t = "rep" ->
           Counts(i, AtMost(RunLength(re.r, s, i, ic), re.hi), re.lo, g)
      [] re.t = "star" -> Counts(i, RunLength(re.r, s, i, ic), re.lo, g)
      [] re.t = "grp" -> Closed(Results(re.r, s, i, g, ic), re.n, i)

\* the first of the matches that start at b, if there is one
FirstAt(b, rs) ==
    IF Len(rs) = 0 THEN NoMatch
    ELSE [ok |-> TRUE, b |-> b, e |-> rs[1].e, g |-> rs[1].g]

\* re.match(pattern, s): a match starting at the first character
Match(re, s, ic) == FirstAt(1, Results(re, s, 1, NoGroups, ic))

\* re.search(pattern, s): the match with the leftmost start
Search(re, s, ic) ==
    FirstOk([b \in 1..(Len(s) + 1) |-> FirstAt(b, Results(re, s, b, NoGroups, ic))])

\* match.group(0), match.group(n)
Group0(s, m) == SubSeq(s, m.b, m.e - 1)
Group(s, m, n) == SubSeq(s, m.g[n][1], m.g[n][2] - 1)

(***************************************************************************)
(* Python values: the source tests types with isinstance, so a value       *)
(* carries its type.  A float holds its value in hundredths.               *)
(***************************************************************************)
PyNone == [ty |-> "NoneType"]
PyStr(s) == [ty |-> "str", s |-> s]
PyInt(n) == [ty |-> "int", n |-> n]
PyFloat(h) == [ty |-> "float", h |-> h]
PyDate(y, m, d) == [ty |-> "date", y |-> y, m |-> m, d |-> d]

(***************************************************************************)
(* datetime.strptime(s, fmt).date() for the formats of formats_to_try.     *)
(* A format is the list of its directives and literal characters; strptime *)
(* compiles it to a regular expression (ignoring case), takes the match at *)
(* the start of the string, rejects unconverted data after it, and then    *)
(* rejects a day that the month does not have.                             *)
(***************************************************************************)
MonthAbbr == <<"jan", "feb", "mar", "apr", "may", "jun",
               "jul", "aug", "sep", "oct", "nov", "dec">>
MonthFull == <<"january", "february", "march", "april", "may", "june", "july",
               "august", "september", "october", "november", "december">>
\* strptime tries the longer names first
MonthFullByLength == <<"september", "february", "november", "december", "january",
                       "october", "august", "march", "april", "june", "july", "may">>

Digit == Cls(DigitChars)
\* groups: 1 = %Y, 2 = %m, 3 = %d, 4 = %b or %B, 5 = %y
DirectiveRegex(tok) ==
    CASE tok = "%Y" -> Grp(1, Cat(<<Digit, Digit, Digit, Digit>>))
      [] tok = "%m" -> Grp(2, Alt(<<Cat(<<Lit("1"), Cls({"0", "1", "2"})>>),
                                    Cat(<<Lit("0"), Cls(DigitChars \ {"0"})>>),
                                    Cls(DigitChars \ {"0"})>>))
      [] tok = "%d" -> Grp(3, Alt(<<Cat(<<Lit("3"), Cls({"0", "1"})>>),
                                    Cat(<<Cls({"1", "2"}), Digit>>),
                                    Cat(<<Lit("0"), Cls(DigitChars \ {"0"})>>),
                                    Cls(DigitChars \ {"0"}),
                                    Cat(<<Lit(" "), Cls(DigitChars \ {"0"})>>)>>))
      [] tok = "%b" -> Grp(4, Words(MonthAbbr))
      [] tok = "%B" -> Grp(4, Words(MonthFullByLength))
      [] tok = "%y" -> Grp(5, Cat(<<Digit, Digit>>))
      [] tok = " " -> Plus(Cls(SpaceChars))
      [] OTHER -> Lit(tok)

FormatRegex(fmt) == Cat([i \in 1..Len(fmt) |-> DirectiveRegex(fmt[i])])

IsLeap(y) == (y % 4 = 0 /\ y % 100 # 0) \/ y % 400 = 0
DaysInMonth(y, m) ==
    IF m = 2 THEN (IF IsLeap(y) THEN 29 ELSE 28)
    ELSE IF m \in {4, 6, 9, 11} THEN 30 ELSE 31
\* datetime.date(y, m, d) does not raise ValueError
ValidDate(y, m, d) == y \in 1..9999 /\ m \in 1..12 /\ d \in 1..DaysInMonth(y, m)

MonthOfLower(name) ==
    IF \E i \in 1..12 : MonthAbbr[i] = name
    THEN CHOOSE i \in 1..12 : MonthAbbr[i] = name
    ELSE CHOOSE i \in 1..12 : MonthFull[i] = name
MonthOfName(name) == MonthOfLower(Lower(name))

Has(fmt, tok) == \E i \in 1..Len(fmt) : fmt[i] = tok

\* [ok |-> FALSE] stands for ValueError
strptime(s, fmt) ==
    LET Century(y2) == IF y2 <= 68 THEN 2000 + y2 ELSE 1900 + y2
        Date(year, month, day) ==
            IF ValidDate(year, month, day)
            THEN [ok |-> TRUE, date |-> PyDate(year, month, day)]
            ELSE [ok |-> FALSE]
        Convert(found) ==
            IF ~found.ok THEN [ok |-> FALSE]
            ELSE IF found.e # Len(s) + 1 THEN [ok |-> FALSE]
            ELSE Date(IF Has(fmt, "%Y") THEN ToInt(Group(s, found, 1))
                      ELSE Century(ToInt(Group(s, found, 5))),
                      IF Has(fmt, "%m") THEN ToInt(Group(s, found, 2))
                      ELSE MonthOfName(Group(s, found, 4)),
                      ToInt(Strip(Group(s, found, 3))))
    IN  Convert(Match(FormatRegex(fmt), s, TRUE))

formats_to_try ==
    << <<"%Y", "-", "%m", "-", "%d">>, <<"%d", "-", "%m", "-", "%Y">>, <<"%m", "-", "%d", "-", "%Y">>,
       <<"%Y", "/", "%m", "/", "%d">>, <<"%d", "/", "%m", "/", "%Y">>, <<"%m", "/", "%d", "/", "%Y">>,
       <<"%Y", ".", "%m", ".", "%d">>, <<"%d", ".", "%m", ".", "%Y">>, <<"%m", ".", "%d", ".", "%Y">>,
       <<"%b", " ", "%d", ",", " ", "%Y">>, <<"%B", " ", "%d", ",", " ", "%Y">>,
       <<"%d", " ", "%b", " ", "%Y">>, <<"%d", " ", "%B", " ", "%Y">>,
       <<"%Y", "%m", "%d">>,
       <<"%y", "-", "%m", "-", "%d">>, <<"%d", "-", "%m", "-", "%y">>,
       <<"%y", "/", "%m", "/", "%d">>, <<"%d", "/", "%m", "/", "%y">> >>

\* the loop `for fmt in formats: try: return strptime(s, fmt) except ValueError`
\* from format i on: the result of the first format that parses
TryFormats(s, formats, i) ==
    FirstOk([j \in i..Len(formats) |-> strptime(s, formats[j])])

(***************************************************************************)
(* float(s) for a string of digits and dots (what re.sub(r'[^\d.]', '', _) *)
(* leaves).  The value is exact in hundredths: the patterns of the source  *)
(* capture at most two digits after the dot.  [ok |-> FALSE] is ValueError.*)
(***************************************************************************)
Pad2(frac) == IF Len(frac) = 0 THEN 0
              ELSE IF Len(frac) = 1 THEN 10 * ToInt(frac)
              ELSE ToInt(SubSeq(frac, 1, 2))
ParseFloat(s) ==
    LET Number(whole, frac) ==
            IF /\ AllDigits(whole) /\ AllDigits(frac)
               /\ Len(whole) + Len(frac) > 0
            THEN [ok |-> TRUE, h |-> 100 * ToInt(whole) + Pad2(frac)]
            ELSE [ok |-> FALSE]
        SplitAt(dot) == Number(IF dot = 0 THEN s ELSE SubSeq(s, 1, dot - 1),
                               IF dot = 0 THEN "" ELSE SubSeq(s, dot + 1, Len(s)))
    IN  SplitAt(IndexOfCh(s, ".", 1))

(***************************************************************************)
(* _extract_from_text: amount and currency (parsing.py lines 45-87).       *)
(***************************************************************************)
WS == Cls(SpaceChars)
CurrencySymbols == {"$", "€", "£", "₹"}
IsoCodes == <<"usd", "eur", "gbp", "inr", "cad", "aud">>
\* [\d,]+\.?\d{0,2}
AmountNumber == Cat(<<Plus(Cls(DigitChars \cup {","})), Opt(Lit(".")), Rep(Digit, 0, 2)>>)
\* [$€£₹]\s*[\d,]+\.?\d{0,2}
SymbolAmount == Cat(<<Cls(CurrencySymbols), Star(WS), AmountNumber>>)
\* \s*[:=]?\s*
Sep == Cat(<<Star(WS), Opt(Cls({":", "="})), Star(WS)>>)

amount_patterns ==
    << Cat(<<Words(<<"total", "amount due", "grand total", "net amount", "balance due",
                     "total paid", "total bill", "due amount">>),
             Sep, Grp(1, SymbolAmount)>>),
       Cat(<<Grp(1, SymbolAmount), Star(WS), Words(<<"total", "amount", "due", "paid">>)>>),
       Cat(<<Words(<<"total", "amount", "sum", "grand total", "bill", "paid", "due">>),
             Sep, Grp(1, AmountNumber)>>),
       Cat(<<Grp(1, AmountNumber), Star(WS), Words(IsoCodes)>>),
       Cat(<<Words(IsoCodes), Star(WS), Grp(1, AmountNumber)>>) >>

\* ([$€£₹]|usd|eur|gbp|inr|cad|aud)
CurrencyRegex == Grp(1, Alt(<<Cls(CurrencySymbols), Words(IsoCodes)>>))

\* the default of line 55
DefaultExtractCurrency == "INR"

\* lines 64-69
CurrencyOfSymbol(symbol_or_code) ==
    CASE symbol_or_code = "$" -> "USD"
      [] symbol_or_code = "€" -> "EUR"
      [] symbol_or_code = "£" -> "GBP"
      [] symbol_or_code = "₹" -> "INR"
      [] OTHER -> symbol_or_code

\* re.sub(r'[^\d.]', '', s)
RECURSIVE KeepFrom(_, _, _, _)
KeepFrom(s, cs, lo, hi) ==
    IF lo > hi THEN ""
    ELSE IF lo = hi THEN (IF Ch(s, lo) \in cs THEN Ch(s, lo) ELSE "")
    ELSE KeepFrom(s, cs, lo, (lo + hi) \div 2) \o KeepFrom(s, cs, (lo + hi) \div 2 + 1, hi)
KeepChars(s, cs) == KeepFrom(s, cs, 1, Len(s))

\* a filter that lets every number pass
AnyAmount(h) == TRUE

\* line 75: amount > 0.01 and amount < 1_000_000, in hundredths
Plausible(h) == h > 1 /\ h < 100000000

\* the loop of lines 57-80 from pattern i on; `found` is `amount is not None`
RECURSIVE AmountLoop(_, _, _)
AmountLoop(lower_text, i, currency) ==
    IF i > Len(amount_patterns) THEN [found |-> FALSE, currency |-> currency]
    ELSE
    LET \* lines 72-80
        Candidate(amount, currency2) ==
            IF amount.ok /\ Plausible(amount.h)
            THEN [found |-> TRUE, amount |-> amount.h, currency |-> currency2]
            ELSE AmountLoop(lower_text, i + 1, currency2)
        \* lines 61-69
        Currency(value_str, detected_curr) ==
            IF detected_curr.ok
            THEN CurrencyOfSymbol(Upper(Group(value_str, detected_curr, 1)))
            ELSE currency
        Value(value_str) ==
            Candidate(ParseFloat(KeepChars(value_str, DigitChars \cup {"."})),
                      Currency(value_str, Search(CurrencyRegex, value_str, TRUE)))
        Matched(match) ==
            IF ~match.ok THEN AmountLoop(lower_text, i + 1, currency)
            ELSE Value(Strip(RemoveChars(Group(lower_text, match, 1), {","})))
    IN  Matched(Search(amount_patterns[i], lower_text, TRUE))

\* lines 54-87: the entries 'amount' and 'currency' of extracted_data
AmountEntries(r) ==
    IF r.found
    THEN ("amount" :> PyFloat(r.amount)) @@ ("currency" :> PyStr(r.currency))
    ELSE << >>
ExtractAmount(text) == AmountEntries(AmountLoop(Lower(text), 1, DefaultExtractCurrency))

(***************************************************************************)
(* _extract_from_text: transaction date (lines 89-135).                    *)
(***************************************************************************)
MonthPrefix == Cat(<<Words(MonthAbbr), Star(Cls(LowerSet))>>)
DateSep == Cls({"-", "/", "."})
date_patterns ==
    << Cat(<<Rep(Digit, 1, 2), DateSep, Rep(Digit, 1, 2), DateSep, Rep(Digit, 2, 4)>>),
       Cat(<<Rep(Digit, 4, 4), DateSep, Rep(Digit, 1, 2), DateSep, Rep(Digit, 1, 2)>>),
       Cat(<<MonthPrefix, Opt(Lit(".")), Plus(WS), Rep(Digit, 1, 2),
             Plus(Cls({","} \cup SpaceChars)), Rep(Digit, 4, 4)>>),
       Cat(<<Rep(Digit, 1, 2), Plus(WS), MonthPrefix, Opt(Lit(".")), Plus(WS), Rep(Digit, 4, 4)>>),
       Cat(<<Rep(Digit, 1, 2), Plus(WS), MonthPrefix, Opt(Lit(".")), Plus(WS), Rep(Digit, 2, 2)>>),
       Cat(<<Rep(Digit, 1, 2), Cls({"-", "/"}), MonthPrefix, Cls({"-", "/"}), Rep(Digit, 2, 4)>>) >>
date_keywords == <<"date", "bill date", "invoice date", "transaction date", "sale date",
                   "paid date", "issue date">>

\* lines 104-114 and 120-129: the first pattern whose first match parses
ScanDatePatterns(s, i) ==
    LET Matched(match) ==
            IF match.ok
            THEN TryFormats(RemoveChars(Group0(s, match), {".", ","}), formats_to_try, 1)
            ELSE [ok |-> FALSE]
    IN  FirstOk([j \in i..Len(date_patterns) |->
                    Matched(Search(date_patterns[j], s, FALSE))])

HasDateKeyword(lower_line) ==
    \E k \in 1..Len(date_keywords) : Contains(lower_line, date_keywords[k])

\* lines 100-116: the keyword lines in document order
\* the first keyword line with a pattern that parses
ScanKeywordLines(lines, i) ==
    LET Line(lower_line) ==
            IF HasDateKeyword(lower_line) THEN ScanDatePatterns(lower_line, 1)
            ELSE [ok |-> FALSE]
    IN  FirstOk([j \in i..Len(lines) |-> Line(Lower(lines[j]))])

\* the scan over the whole text alone, keyword or not
ExtractDateAnywhere(text) ==
    LET Entry(transaction_date) ==
            IF transaction_date.ok THEN ("transaction_date" :> transaction_date.date)
            ELSE << >>
    IN  Entry(ScanDatePatterns(Lower(text), 1))

\* lines 95-135: the entry 'transaction_date' of extracted_data
ExtractDate(text) ==
    LET Entry(transaction_date) ==
            IF transaction_date.ok THEN ("transaction_date" :> transaction_date.date)
            ELSE << >>
        Near(near) == Entry(IF near.ok THEN near ELSE ScanDatePatterns(Lower(text), 1))
    IN  Near(ScanKeywordLines(Split(text, "\n"), 1))

(***************************************************************************)
(* _extract_from_text: vendor name (lines 137-202).                        *)
(***************************************************************************)
\* keyword[:\s]*(.+)
VendorPattern(keyword) ==
    Cat(<<keyword, Star(Cls({":"} \cup SpaceChars)), Grp(1, Plus(Dot))>>)
vendor_patterns ==
    << VendorPattern(Lit("invoice from")), VendorPattern(Lit("bill from")),
       VendorPattern(Lit("receipt from")), VendorPattern(Lit("sold by")),
       VendorPattern(Lit("purchased from")), VendorPattern(Lit("billed by")),
       VendorPattern(Words(<<"vendor", "biller", "store", "company">>)) >>

\* the separator of re.split on line 154
JunkBoundary ==
    Alt(<<Cat(<<Cls({",", ";"}), Star(WS)>>),
          Words(<<"phone", "tel", "email", "website", "www.", "gst", "vat", "abn", "cin",
                  "ltd", "inc", "co.", "corporation", "group", "llc", "pvt">>)>>)

\* re.split(pattern, s, 1)[0]
BeforeFirst(re, s, ic) ==
    LET Cut(m) == IF m.ok THEN SubSeq(s, 1, m.b - 1) ELSE s
    IN  Cut(Search(re, s, ic))

\* lines 149-157 from pattern i on
RECURSIVE NamedVendor(_, _)
NamedVendor(text, i) ==
    IF i > Len(vendor_patterns) THEN [ok |-> FALSE]
    ELSE
    LET Candidate(potential_vendor) ==
            IF Len(potential_vendor) > 2 /\ Len(potential_vendor) < 100
            THEN [ok |-> TRUE, name |-> potential_vendor]
            ELSE NamedVendor(text, i + 1)
        Matched(match) ==
            IF match.ok
            THEN Candidate(Strip(BeforeFirst(JunkBoundary,
                                             Strip(Split(Group(text, match, 1), "\n")[1]),
                                             FALSE)))
            ELSE NamedVendor(text, i + 1)
    IN  Matched(Search(vendor_patterns[i], text, TRUE))

\* [line.strip() for line in lines if line.strip()]
RECURSIVE NonEmptyStripped(_, _)
NonEmptyStripped(lines, i) ==
    IF i > Len(lines) THEN << >>
    ELSE LET Keep(line) == IF line = "" THEN << >> ELSE <<line>>
         IN  Keep(Strip(lines[i])) \o NonEmptyStripped(lines, i + 1)

\* str.split(): the words between runs of whitespace
RECURSIVE WordsFrom(_, _)
WordsFrom(s, i) ==
    IF i > Len(s) THEN << >>
    ELSE IF Ch(s, i) \in SpaceChars THEN WordsFrom(s, i + 1)
    ELSE LET Word(m) == <<SubSeq(s, i, i + m.e - 2)>> \o WordsFrom(s, i + m.e - 1)
         IN  Word(Match(Plus(NotCls(SpaceChars)), SubSeq(s, i, Len(s)), FALSE))
SplitWords(s) == WordsFrom(s, 1)

\* ' '.join(words)
RECURSIVE JoinFrom(_, _)
JoinFrom(words, i) ==
    IF i > Len(words) THEN ""
    ELSE IF i = Len(words) THEN words[i]
    ELSE words[i] \o " " \o JoinFrom(words, i + 1)
JoinSpaces(words) == JoinFrom(words, 1)

\* str.title(): a letter after a letter is lowered, any other letter is raised
TitleCh(s, i) ==
    IF i > 1 /\ Ch(s, i - 1) \in LetterSet THEN LowerCh(Ch(s, i)) ELSE UpperCh(Ch(s, i))
RECURSIVE TitleFrom(_, _, _)
TitleFrom(s, lo, hi) ==
    IF lo > hi THEN ""
    ELSE IF lo = hi THEN TitleCh(s, lo)
    ELSE TitleFrom(s, lo, (lo + hi) \div 2) \o TitleFrom(s, (lo + hi) \div 2 + 1, hi)
Title(s) == TitleFrom(s, 1, Len(s))

\* str.isupper(): some cased character and no lower-case one
IsUpper(s) == /\ \E i \in 1..Len(s) : Ch(s, i) \in UpperSet
              /\ \A i \in 1..Len(s) : Ch(s, i) \notin LowerSet

CountDigits(s) == Cardinality({i \in 1..Len(s) : Ch(s, i) \in DigitChars})

AddressWords == Words(<<"street", "road", "avenue", "po box", "p.o.", "city", "state", "zip",
                        "pin", "building", "floor", "apt", "suite", "flat", "unit">>)
DateAmountWords == Words(<<"date", "total", "amount", "invoice", "receipt", "bill", "gst", "vat">>)

\* lines 178-187: the line qualifies as a vendor name
Qualifies(cleaned_line) ==
    LET is_address_like == Search(AddressWords, cleaned_line, TRUE).ok
        is_number_heavy == /\ Search(Rep(Digit, 3, 3), cleaned_line, FALSE).ok
                           /\ 10 * CountDigits(cleaned_line) > 3 * Len(cleaned_line)
        is_date_amount_keyword == Search(DateAmountWords, cleaned_line, TRUE).ok
        is_too_short_or_long == ~(3 < Len(cleaned_line) /\ Len(cleaned_line) < 60)
    IN  /\ ~is_address_like
        /\ ~is_number_heavy
        /\ ~is_date_amount_keyword
        /\ ~is_too_short_or_long
        /\ \/ Ch(cleaned_line, 1) \in UpperSet
           \/ IsUpper(cleaned_line)
           \/ Len(SplitWords(cleaned_line)) > 1

\* lines 163-194 from line i (counted from 0) on; vendor_name is the candidate so far
RECURSIVE TopLineVendor(_, _, _)
TopLineVendor(top_lines_to_scan, i, vendor_name) ==
    IF i + 1 > Len(top_lines_to_scan) THEN vendor_name
    ELSE LET Line(cleaned_line) ==
                 IF Qualifies(cleaned_line)
                 THEN IF i = 0 \/ (i < 3 /\ Len(SplitWords(cleaned_line)) < 5)
                      THEN [ok |-> TRUE, name |-> cleaned_line]
                      ELSE TopLineVendor(top_lines_to_scan, i + 1,
                                         [ok |-> TRUE, name |-> cleaned_line])
                 ELSE TopLineVendor(top_lines_to_scan, i + 1, vendor_name)
         IN  Line(Strip(top_lines_to_scan[i + 1]))

\* the first seven non-empty lines
FirstSeven(all) == SubSeq(all, 1, IF Len(all) < 7 THEN Len(all) ELSE 7)
TopLines(text) == FirstSeven(NonEmptyStripped(Split(text, "\n"), 1))

\* lines 146-198: [ok, name] with the title-cased name
VendorOf(text) ==
    LET Chosen(vendor_name) ==
            IF vendor_name.ok
            THEN [ok |-> TRUE, name |-> Title(JoinSpaces(SplitWords(vendor_name.name)))]
            ELSE [ok |-> FALSE]
        Named(named) ==
            Chosen(IF named.ok THEN named
                   ELSE TopLineVendor(TopLines(text), 0, [ok |-> FALSE]))
    IN  Named(NamedVendor(text, 1))

\* lines 196-202: the entry 'vendor_name' of extracted_data
VendorEntry(vendor) ==
    IF vendor.ok THEN ("vendor_name" :> PyStr(vendor.name)) ELSE << >>

(***************************************************************************)
(* _extract_from_text: category (lines 204-222).                           *)
(***************************************************************************)
category_map ==
    << <<"grocer", "Groceries">>, <<"supermart", "Groceries">>, <<"hypermarket", "Groceries">>,
       <<"foodmart", "Groceries">>, <<"bakery", "Groceries">>, <<"market", "Groceries">>,
       <<"electricity", "Utilities">>, <<"power bill", "Utilities">>, <<"light bill", "Utilities">>,
       <<"internet", "Utilities">>, <<"telecom", "Utilities">>, <<"broadband", "Utilities">>,
       <<"water bill", "Utilities">>, <<"gas bill", "Utilities">>,
       <<"restaurant", "Dining">>, <<"cafe", "Dining">>, <<"food", "Dining">>, <<"diner", "Dining">>,
       <<"eatery", "Dining">>, <<"pizzeria", "Dining">>, <<"kfc", "Dining">>, <<"mcdonalds", "Dining">>,
       <<"petrol", "Transport">>, <<"gas station", "Transport">>, <<"fuel", "Transport">>,
       <<"auto", "Transport">>, <<"car wash", "Transport">>,
       <<"pharmacy", "Health">>, <<"medicine", "Health">>, <<"clinic", "Health">>,
       <<"hospital", "Health">>, <<"doctor", "Health">>,
       <<"fashion", "Shopping">>, <<"clothing", "Shopping">>, <<"boutique", "Shopping">>,
       <<"retail", "Shopping">>, <<"department store", "Shopping">>, <<"mall", "Shopping">>,
       <<"electronics", "Electronics">>, <<"tech store", "Electronics">>,
       <<"computer", "Electronics">>, <<"mobile", "Electronics">>,
       <<"bookstore", "Books">>, <<"library", "Books">>,
       <<"travel", "Travel">>, <<"airline", "Travel">>, <<"hotel", "Travel">>,
       <<"vacation", "Travel">>, <<"resort", "Travel">>,
       <<"subscription", "Subscriptions">>, <<"monthly fee", "Subscriptions">>,
       <<"membership", "Subscriptions">>, <<"streaming", "Subscriptions">> >>

\* lines 217-221 from entry i on: the category of the first keyword found in
\* the text or in the vendor name
CategoryFrom(lower_text, vendor, i) ==
    LET Found(keyword) ==
            \/ Contains(lower_text, keyword)
            \/ (vendor.ok /\ Contains(Lower(vendor.name), keyword))
        First(j) == IF j = 0 THEN PyNone ELSE PyStr(category_map[j][2])
    IN  First(LeastOr0({j \in i..Len(category_map) : Found(category_map[j][1])}))

\* lines 217-222: the entry 'category_name' of extracted_data
CategoryEntry(text, vendor) == "category_name" :> CategoryFrom(Lower(text), vendor, 1)

(***************************************************************************)
(* _extract_from_text: billing period (lines 224-262).                     *)
(***************************************************************************)
\* \d{1,2}[-/.]\d{1,2}[-/.]\d{2,4}
PeriodDate == Cat(<<Rep(Digit, 1, 2), DateSep, Rep(Digit, 1, 2), DateSep, Rep(Digit, 2, 4)>>)
billing_period_patterns ==
    << Cat(<<Words(<<"billing", "service", "period">>), Sep, Grp(1, PeriodDate), Star(WS),
             Words(<<"to", "-">>), Star(WS), Grp(2, PeriodDate)>>),
       Cat(<<Lit("for the period"), Star(WS), Lit("from"), Star(WS), Grp(1, PeriodDate),
             Star(WS), Lit("to"), Star(WS), Grp(2, PeriodDate)>>) >>

\* lines 231-255 from pattern i on
RECURSIVE BillingLoop(_, _)
BillingLoop(lower_text, i) ==
    IF i > Len(billing_period_patterns) THEN [ok |-> FALSE]
    ELSE
    LET Period(parsed_start, parsed_end) ==
            IF parsed_start.ok /\ parsed_end.ok
            THEN [ok |-> TRUE, start |-> parsed_start.date, end |-> parsed_end.date]
            ELSE BillingLoop(lower_text, i + 1)
        Matched(match) ==
            IF match.ok
            THEN Period(TryFormats(RemoveChars(Group(lower_text, match, 1), {"."}),
                                   formats_to_try, 1),
                        TryFormats(RemoveChars(Group(lower_text, match, 2), {"."}),
                                   formats_to_try, 1))
            ELSE BillingLoop(lower_text, i + 1)
    IN  Matched(Search(billing_period_patterns[i], lower_text, TRUE))

\* a variant that stores each date of the first pattern as soon as it parses
ExtractBillingEither(text) ==
    LET Entry(f, parsed) == IF parsed.ok THEN f :> parsed.date ELSE << >>
        Matched(lower_text, match) ==
            IF match.ok
            THEN Entry("billing_period_start",
                       TryFormats(RemoveChars(Group(lower_text, match, 1), {"."}),
                                  formats_to_try, 1))
                 @@ Entry("billing_period_end",
                          TryFormats(RemoveChars(Group(lower_text, match, 2), {"."}),
                                     formats_to_try, 1))
            ELSE << >>
        Lowered(lower_text) ==
            Matched(lower_text, Search(billing_period_patterns[1], lower_text, TRUE))
    IN  Lowered(Lower(text))

\* lines 257-262: the entries of the billing period in extracted_data
BillingEntries(r) ==
    IF r.ok
    THEN ("billing_period_start" :> r.start) @@ ("billing_period_end" :> r.end)
    ELSE << >>
\* lines 224-262: the entries of the billing period, from the text
ExtractBilling(text) == BillingEntries(BillingLoop(Lower(text), 1))

\* _extract_from_text(text): the dictionary extracted_data
_extract_from_text(text) ==
    LET Entries(vendor) ==
            ExtractAmount(text) @@ ExtractDate(text) @@ VendorEntry(vendor)
            @@ CategoryEntry(text, vendor) @@ ExtractBilling(text)
    IN  Entries(VendorOf(text))

(***************************************************************************)
(* validate_file_type (validation.py lines 59-78).  The argument is a      *)
(* Python value; the result is PyStr("image" | "pdf" | "text") or PyNone.  *)
(***************************************************************************)
\* file_name.split('.')[-1].lower()
Last(parts) == parts[Len(parts)]
file_extension(file_name) == Lower(Last(Split(file_name, ".")))

\* the type that goes with an extension
TypeOf(extension) ==
    IF extension \in {"jpg", "jpeg", "png", "gif", "bmp"} THEN PyStr("image")
    ELSE IF extension = "pdf" THEN PyStr("pdf")
    ELSE IF extension = "txt" THEN PyStr("text")
    ELSE PyNone

validate_file_type(file_name) ==
    IF file_name.ty # "str" THEN PyNone
    ELSE TypeOf(file_extension(file_name.s))

(***************************************************************************)
(* ParsedReceiptData (validation.py lines 9-57).  The keyword arguments    *)
(* are a function from field names to Python values (a dict).  A validator *)
(* result is [out |-> "value", v |-> value], [out |-> "invalid"] (the      *)
(* ValueError / TypeError that pydantic collects for the field) or         *)
(* [out |-> "NameError"] (an exception pydantic does not collect).         *)
(***************************************************************************)
Value(v) == [out |-> "value", v |-> v]
Invalid == [out |-> "invalid"]

\* the order of declaration, lines 13-20
FieldNames ==
    << "vendor_name", "transaction_date", "amount", "currency", "category_name",
       "billing_period_start", "billing_period_end", "parsed_raw_text" >>
RequiredFields == {"vendor_name", "transaction_date", "amount"}

\* lines 22-35; the module imports `date` only, so the name `datetime` of
\* line 27 is undefined when a string arrives
parse_date_strings(v) ==
    IF v.ty = "str" THEN [out |-> "NameError"]
    ELSE IF v.ty = "date" THEN Value(v)
    ELSE IF v.ty = "NoneType" THEN Value(PyNone)
    ELSE Invalid

\* float(s) for s made of an optional sign, digits and at most one dot
FloatOfStr(s) ==
    LET Signed(r) ==
            IF r.ok THEN [ok |-> TRUE, h |-> IF Ch(s, 1) = "-" THEN 0 - r.h ELSE r.h]
            ELSE [ok |-> FALSE]
    IN  IF Len(s) > 0 /\ Ch(s, 1) \in {"+", "-"}
        THEN Signed(ParseFloat(SubSeq(s, 2, Len(s))))
        ELSE ParseFloat(s)

\* a variant that rounds a float down to whole units
parse_amount_rounded(v) ==
    IF v.ty = "float" THEN Value(PyFloat(100 * (v.h \div 100))) ELSE Invalid

\* lines 37-48
parse_amount(v) ==
    IF v.ty = "int" THEN Value(PyFloat(100 * v.n))
    ELSE IF v.ty = "float" THEN Value(v)
    ELSE IF v.ty = "str"
    THEN LET Float(r) == IF r.ok THEN Value(PyFloat(r.h)) ELSE Invalid
         IN  Float(FloatOfStr(Strip(RemoveChars(v.s, CurrencySymbols \cup {","}))))
    ELSE Invalid

\* str.isalpha for ASCII letters
IsAlpha(s) == Len(s) > 0 /\ \A i \in 1..Len(s) : Ch(s, i) \in LetterSet

\* Field("USD", ...), line 16, and the fallback of line 57
DefaultCurrency == "USD"
MaxCurrencyLength == 5

\* lines 50-57
validate_currency(v) ==
    LET Code(s) == IF Len(s) <= MaxCurrencyLength /\ IsAlpha(s)
                   THEN Value(PyStr(s))
                   ELSE Value(PyStr(DefaultCurrency))
    IN  IF v.ty = "str" THEN Code(Strip(Upper(v.s)))
        ELSE Value(PyStr(DefaultCurrency))

Given(fields, f) == f \in DOMAIN fields

\* a type annotation Optional[str] or Optional[date] applied to a value
OptionalOf(ty, r) ==
    IF r.out # "value" THEN r
    ELSE IF r.v.ty \in {ty, "NoneType"} THEN r ELSE Invalid

\* line 13: str, required, min_length=1
vendor_name_field(fields) ==
    IF ~Given(fields, "vendor_name") THEN Invalid
    ELSE IF fields["vendor_name"].ty = "str" /\ Len(fields["vendor_name"].s) >= 1
         THEN Value(fields["vendor_name"])
         ELSE Invalid

\* line 14: date, required, after parse_date_strings
transaction_date_field(fields) ==
    IF ~Given(fields, "transaction_date") THEN Invalid
    ELSE LET Typed(r) == IF r.out = "value" /\ r.v.ty # "date" THEN Invalid ELSE r
         IN  Typed(parse_date_strings(fields["transaction_date"]))

\* a variant without the constraint gt=0
amount_field_unconstrained(fields) ==
    IF ~Given(fields, "amount") THEN Invalid ELSE parse_amount(fields["amount"])

\* line 15: float, required, gt=0, after parse_amount
amount_field(fields) ==
    IF ~Given(fields, "amount") THEN Invalid
    ELSE LET Constrained(r) == IF r.out = "value" /\ ~(r.v.h > 0) THEN Invalid ELSE r
         IN  Constrained(parse_amount(fields["amount"]))

\* line 16: str, default "USD", min_length=1, max_length=5, after validate_currency
currency_field(fields) ==
    IF ~Given(fields, "currency") THEN Value(PyStr(DefaultCurrency))
    ELSE LET Constrained(r) ==
                 IF Len(r.v.s) >= 1 /\ Len(r.v.s) <= MaxCurrencyLength THEN r ELSE Invalid
         IN  Constrained(validate_currency(fields["currency"]))

\* lines 17 and 20: Optional[str], default None
optional_str_field(fields, f) ==
    IF ~Given(fields, f) THEN Value(PyNone) ELSE OptionalOf("str", Value(fields[f]))

\* lines 18-19: Optional[date], default None, after parse_date_strings
optional_date_field(fields, f) ==
    IF ~Given(fields, f) THEN Value(PyNone)
    ELSE OptionalOf("date", parse_date_strings(fields[f]))

FieldResult(fields, f) ==
    CASE f = "vendor_name" -> vendor_name_field(fields)
      [] f = "transaction_date" -> transaction_date_field(fields)
      [] f = "amount" -> amount_field(fields)
      [] f = "currency" -> currency_field(fields)
      [] f \in {"category_name", "parsed_raw_text"} -> optional_str_field(fields, f)
      [] OTHER -> optional_date_field(fields, f)

FieldSet == {FieldNames[i] : i \in 1..Len(FieldNames)}

\* a variant that stops at the first field that failed, in declaration order
FirstViolation(results) ==
    LET failed == {i \in 1..Len(FieldNames) : results[FieldNames[i]].out = "invalid"}
    IN  IF failed = {} THEN {}
        ELSE {FieldNames[CHOOSE i \in failed : \A j \in failed : i <= j]}

\* the errors pydantic collects: one entry per field that failed
Violations(results) == {f \in FieldSet : results[f].out = "invalid"}

\* the model instance, or the exception raised, given the result of each field
Construct(results, violated) ==
    IF \E f \in FieldSet : results[f].out = "NameError"
    THEN [ok |-> FALSE, exc |-> "NameError", violated |-> {}]
    ELSE IF violated # {}
    THEN [ok |-> FALSE, exc |-> "ValidationError", violated |-> violated]
    ELSE [ok |-> TRUE, data |-> [f \in FieldSet |-> results[f].v]]

\* ParsedReceiptData(**fields)
ParsedReceiptData(fields) ==
    LET Validated(results) == Construct(results, Violations(results))
    IN  Validated([f \in FieldSet |-> FieldResult(fields, f)])

(***************************************************************************)
(* File contents.  The bytes of a file are named; what the libraries make  *)
(* of them is tabulated: bytes.decode('utf-8') and bytes.decode('latin-1') *)
(* (parsing.py line 293), PyPDF2 page text (lines 306-310), cv2.imdecode   *)
(* and the rest of the preprocessing (ocr_utils.py lines 24-58),           *)
(* pytesseract.image_to_osd (line 100) and pytesseract.image_to_string     *)
(* (line 75).  A library call returns a text or raises.                    *)
(***************************************************************************)
Raises == [ok |-> FALSE]
Returns(t) == [ok |-> TRUE, text |-> t]

Receipt == "Vendor: TestShop\nDate: 2023-01-01\nTotal: $100.00\nCategory: Groceries"
NoAmountText == "Vendor: TestShop\nDate: 2023-01-01"
AmountOnlyText == "Total: $5.00"
PoundText == "Vendor: Tea Room\nDate: 2023-03-05\nTotal: £5.00"
BillingText == "Vendor: NetCo\nDate: 2023-02-01\nTotal: $59.99\nBilling: 01/01/2023 to 31/01/2023"
HalfBillingText == "Vendor: NetCo\nDate: 2023-02-01\nTotal: $59.99\nBilling: 01/01/2023 to 31/31/2023"
OsdText == "Script: Latin\nLanguage: Eng"

\* a text file in an ASCII-compatible encoding
TextBytes(t) ==
    [utf8 |-> Returns(t), latin1 |-> t, pdf |-> Raises, img |-> FALSE,
     osd |-> Raises, ocr |-> Raises]
\* a text file that is not UTF-8
Latin1Bytes(t) ==
    [utf8 |-> Raises, latin1 |-> t, pdf |-> Raises, img |-> FALSE,
     osd |-> Raises, ocr |-> Raises]
\* a PDF with the given text layer; page is what OCR reads when the page
\* image can be decoded
PdfBytes(layer, page) ==
    [utf8 |-> Raises, latin1 |-> "%PDF-1.4", pdf |-> Returns(layer), img |-> page.ok,
     osd |-> Raises, ocr |-> page]
\* an image that decodes
ImageBytes(osd, ocr) ==
    [utf8 |-> Raises, latin1 |-> "JFIF", pdf |-> Raises, img |-> TRUE,
     osd |-> osd, ocr |-> ocr]

Blob ==
    "receipt" :> TextBytes(Receipt)
    @@ "empty" :> TextBytes("")
    @@ "blank" :> TextBytes(" \n")
    @@ "no_amount" :> TextBytes(NoAmountText)
    @@ "amount_only" :> TextBytes(AmountOnlyText)
    @@ "billing" :> TextBytes(BillingText)
    @@ "half_billing" :> TextBytes(HalfBillingText)
    @@ "pound_latin1" :> Latin1Bytes(PoundText)
    @@ "pdf_text" :> PdfBytes(Receipt, Raises)
    @@ "pdf_scan" :> PdfBytes(" \n", Returns(Receipt))
    @@ "pdf_blank" :> PdfBytes("", Returns(""))
    @@ "photo" :> ImageBytes(Returns(OsdText), Returns(Receipt \o "\n"))
    @@ "photo_blank" :> ImageBytes(Raises, Returns(" \n"))
    @@ "photo_damaged" :> ImageBytes(Returns(OsdText), Raises)
Contents == DOMAIN Blob

\* what a path of the file system holds besides contents
Absent == "<no file>"
Unreadable == "<unreadable>"
Stored == Contents \cup {Absent, Unreadable}

(***************************************************************************)
(* ingestion.py                                                            *)
(***************************************************************************)
\* str(RAW_RECEIPTS_DIR / original_filename), lines 11-12 and 32
RAW_RECEIPTS_DIR(original_filename) == "data/raw_receipts/" \o original_filename

\* read_file_content, lines 44-65, on what the path holds: the bytes or None
read_file_content(stored) ==
    IF stored \in {Absent, Unreadable} THEN PyNone ELSE PyStr(stored)

(***************************************************************************)
(* ocr_utils.py.  tess: the Tesseract engine is installed.                 *)
(***************************************************************************)
\* preprocess_image_for_ocr, lines 16-58: an array (TRUE) or None (FALSE)
preprocess_image_for_ocr(image_bytes) == Blob[image_bytes].img

\* detect_language, lines 85-115.  The module never imports `re`: line 103
\* raises NameError, which the handler of line 113 turns into None.
detect_language(image_bytes, tess) ==
    IF ~preprocess_image_for_ocr(image_bytes) THEN PyNone
    ELSE IF ~tess THEN PyNone                        \* line 110
    ELSE IF ~Blob[image_bytes].osd.ok THEN PyNone    \* line 113
    ELSE PyNone                                      \* NameError of line 103, line 113

\* extract_text_from_image, lines 60-83
extract_text_from_image(image_bytes, lang, tess) ==
    IF ~preprocess_image_for_ocr(image_bytes) THEN PyNone
    ELSE IF ~tess THEN PyNone
    ELSE IF ~Blob[image_bytes].ocr.ok THEN PyNone
    ELSE PyStr(Strip(Blob[image_bytes].ocr.text))

(***************************************************************************)
(* parse_document (parsing.py lines 267-351) on a file name, what the path *)
(* holds and the OCR engine.  The outcome is the record returned or the    *)
(* exception raised, with the stages that ran, in order.                   *)
(***************************************************************************)
Raise(kind, message, trace) ==
    [kind |-> kind, message |-> message, violated |-> {}, data |-> PyNone, trace |-> trace]
Return(data, trace) ==
    [kind |-> "return", message |-> "", violated |-> {}, data |-> data, trace |-> trace]

\* `not extracted_text or not extracted_text.strip()`, lines 327 and 335
NoText(extracted_text) == extracted_text.ty = "NoneType" \/ Strip(extracted_text.s) = ""

\* lines 288-302: the text acquired, or the exception raised.  latin-1
\* decodes every byte string, so cp1252 is never tried; an empty text makes
\* line 298 call UnicodeDecodeError with one argument, a TypeError that
\* line 300 catches.
AcquireFromText(raw_content_bytes) ==
    LET Decoded(extracted_text) ==
            IF extracted_text = ""
            THEN [raised |-> TRUE, kind |-> "FileProcessingError",
                  message |-> "Failed to decode text file: function takes exactly 5 arguments (1 given)",
                  trace |-> <<"decode">>]
            ELSE [raised |-> FALSE, text |-> PyStr(extracted_text), trace |-> <<"decode">>]
    IN  Decoded(IF Blob[raw_content_bytes].utf8.ok
                THEN Blob[raw_content_bytes].utf8.text
                ELSE Blob[raw_content_bytes].latin1)

\* lines 303-319: page text, or None when there is none or PyPDF2 raises
AcquireFromPdf(raw_content_bytes) ==
    IF Blob[raw_content_bytes].pdf.ok /\ Strip(Blob[raw_content_bytes].pdf.text) # ""
    THEN [raised |-> FALSE, text |-> PyStr(Blob[raw_content_bytes].pdf.text),
          trace |-> <<"PdfReader">>]
    ELSE [raised |-> FALSE, text |-> PyNone, trace |-> <<"PdfReader">>]

\* lines 321-332
AcquireFromImage(raw_content_bytes, original_filename, tess) ==
    LET Recognised(extracted_text) ==
            IF NoText(extracted_text)
            THEN [raised |-> TRUE, kind |-> "ParsingError",
                  message |-> "OCR processing failed: OCR failed to extract text from "
                              \o original_filename \o ".",
                  trace |-> <<"detect_language", "extract_text_from_image">>]
            ELSE [raised |-> FALSE, text |-> extracted_text,
                  trace |-> <<"detect_language", "extract_text_from_image">>]
        ocr_lang(detected_lang) == IF detected_lang.ty = "str" THEN detected_lang.s ELSE "eng"
    IN  Recognised(extract_text_from_image(raw_content_bytes,
                                           ocr_lang(detect_language(raw_content_bytes, tess)),
                                           tess))

\* lines 287-332
AcquireText(file_type, raw_content_bytes, original_filename, tess) ==
    IF file_type = "text" THEN AcquireFromText(raw_content_bytes)
    ELSE IF file_type = "pdf" THEN AcquireFromPdf(raw_content_bytes)
    ELSE AcquireFromImage(raw_content_bytes, original_filename, tess)

\* lines 335-340
EmptyTextError(file_type, original_filename, trace) ==
    IF file_type = "pdf"
    THEN Raise("ParsingError",
               "PDF " \o original_filename \o " has no selectable text. Please ensure it's a text-searchable PDF or convert it to an image (.png/.jpg) for OCR processing.",
               trace)
    ELSE Raise("ParsingError", "No meaningful text extracted from " \o original_filename \o ".",
               trace)

\* the texts the files of Blob can yield
DecodedText(b) == IF b.utf8.ok THEN b.utf8.text ELSE b.latin1
PageText(b) == IF b.pdf.ok THEN {b.pdf.text} ELSE {}
OcrText(b) == IF b.ocr.ok THEN {Strip(b.ocr.text)} ELSE {}
FileTexts == UNION {{DecodedText(Blob[c])} \cup PageText(Blob[c]) \cup OcrText(Blob[c]) :
                    c \in Contents}

\* texts with one amount line: a keyword, a currency symbol, the number
\* 50.00; `h` is the number in hundredths
KeywordAmounts ==
    {[text |-> keyword \o ": " \o symbol \o "50.00", symbol |-> symbol, h |-> 5000] :
        keyword \in {"Total", "Grand Total", "Amount", "Due"}, symbol \in CurrencySymbols}
\* texts with the number 12.50 after or before an ISO currency code
IsoAmounts ==
    {[text |-> Upper(IsoCodes[i]) \o " 12.50", code |-> Upper(IsoCodes[i]), h |-> 1250] :
        i \in 1..Len(IsoCodes)}
    \cup {[text |-> "12.50 " \o Upper(IsoCodes[i]), code |-> Upper(IsoCodes[i]), h |-> 1250] :
            i \in 1..Len(IsoCodes)}
\* texts without a currency symbol or code, with and without an amount
PlainTotalText == "Total: 45.00"
AmountTexts ==
    {sample.text : sample \in KeywordAmounts} \cup {sample.text : sample \in IsoAmounts}
    \cup {PlainTotalText}

\* texts whose first amount candidate is zero, no number, too large or on
\* a bound of the filter, with and without a candidate of a later pattern
ZeroThenIsoText == "Total: $0.00\n12.50 USD"
CandidateTexts ==
    {ZeroThenIsoText, "Total: $,\nAmount 20.00", "Total: $1000000.00\nDue: 75.25",
     "Total: 0.00", "Total: 0.01", "Total: 999999.99"}

\* texts with dates on lines with and without a date keyword
PlainDateFirstText == "01/02/2023\nDate: 2023-03-04"
KeywordWithoutDateText == "Date: soon\n05/06/2023"
DateTexts ==
    {PlainDateFirstText, KeywordWithoutDateText,
     "Date: 2023-01-01\nInvoice Date: 2023-02-02",
     "Date: 31/31/2023\nPaid Date: 2023-07-08\n2023-09-10",
     "Updated soon\nno date"}

\* texts that are the date 15 January 2023 written in one supported shape
ShapeTexts ==
    {"15" \o sep \o "01" \o sep \o "2023" : sep \in {"-", "/", "."}}
    \cup {"2023" \o sep \o "01" \o sep \o "15" : sep \in {"-", "/", "."}}
    \cup {"Jan 15, 2023", "January 15, 2023", "15 Jan 2023", "15 January 2023"}

\* texts without a named vendor pattern, with one or more name-like lines
\* among the first non-empty lines
LateNamesText == "Total 5\nDate x\nInvoice 7\nFirst Shop\nSecond Shop"
TopLineTexts ==
    {LateNamesText, "Receipt\nOne two three four five\nCorner Shop",
     "ABC Retail\n123 Main St\nDate: ...", "Receipt\nCorner Shop\nOther Shop",
     "bill\ngst\nvat\ntotal\namount\ndate\ninvoice\nEighth Shop"}

\* texts with a vendor after a named pattern, followed by a boundary token
\* in lower case, capitalized or in upper case
NamedVendorTexts ==
    {"Vendor: Acme " \o token \o " 555" : token \in {"phone", "Phone", "tel", "TEL"}}
    \cup {"Sold by: Acme " \o token : token \in {"ltd", "LTD", "inc", "Inc"}}
    \cup {"Invoice from: XYZ Corp\nDate: ...", "Invoice from: Blue   Sky, 12 Main Road",
          "Sold by: Acme; Tel 5"}

\* texts whose first amount candidate carries a currency symbol and is
\* discarded (zero, or no number), followed by the amount 12.50 without a
\* symbol or code
DiscardedSymbolAmounts ==
    {[text |-> "Total: " \o symbol \o discarded \o "\nPaid 12.50", symbol |-> symbol,
      h |-> 1250] : symbol \in {"€", "£"}, discarded \in {"0.00", ","}}
DiscardedSymbolTexts == {sample.text : sample \in DiscardedSymbolAmounts}

SampleTexts ==
    FileTexts \cup AmountTexts \cup CandidateTexts \cup DateTexts \cup ShapeTexts
    \cup TopLineTexts \cup NamedVendorTexts \cup DiscardedSymbolTexts

\* _extract_from_text applied to each text a file can hold and to the texts
\* of the direct calls
Extracted == {<<text, _extract_from_text(text)>> : text \in SampleTexts}

\* extracted_data of line 343, by text
extracted_data ==
    [text \in SampleTexts |-> (CHOOSE pair \in Extracted : pair[1] = text)[2]]

\* a variant without the handler of lines 349-351: pydantic's ValidationError
\* leaves parse_document as it is
ExtractAndValidateUncaught(extracted_text, trace) ==
    LET Validated(validated_data, stages) ==
            IF validated_data.ok THEN Return(validated_data.data, stages)
            ELSE [Raise("ValidationError", "", stages)
                    EXCEPT !.violated = validated_data.violated]
    IN  Validated(ParsedReceiptData(("parsed_raw_text" :> PyStr(extracted_text))
                                    @@ extracted_data[extracted_text]),
                  trace \o <<"_extract_from_text", "ParsedReceiptData">>)

\* lines 342-351.  The message of the ParsingError is the prefix followed by
\* pydantic's text, which names the fields of `violated`.
ExtractAndValidate(extracted_text, trace) ==
    LET Validated(validated_data, stages) ==
            IF validated_data.ok THEN Return(validated_data.data, stages)
            ELSE [Raise("ParsingError", "Data validation failed after extraction: ", stages)
                    EXCEPT !.violated = validated_data.violated]
    IN  Validated(ParsedReceiptData(("parsed_raw_text" :> PyStr(extracted_text))
                                    @@ extracted_data[extracted_text]),
                  trace \o <<"_extract_from_text", "ParsedReceiptData">>)

\* lines 283-351, after the file type is known
ReadAndParse(file_type, original_filename, stored, tess) ==
    LET Acquired(got, trace) ==
            IF got.raised THEN Raise(got.kind, got.message, trace)
            ELSE IF NoText(got.text) THEN EmptyTextError(file_type, original_filename, trace)
            ELSE ExtractAndValidate(got.text.s, trace)
        Parse(got) == Acquired(got, <<"validate_file_type", "read_file_content">> \o got.trace)
        Read(raw_content_bytes) ==
            IF raw_content_bytes.ty = "NoneType"
            THEN Raise("FileProcessingError",
                       "Could not read content from " \o RAW_RECEIPTS_DIR(original_filename),
                       <<"validate_file_type", "read_file_content">>)
            ELSE Parse(AcquireText(file_type, raw_content_bytes.s, original_filename, tess))
    IN  Read(read_file_content(stored))

\* a variant that reads the file before it looks at the name
ParseOutcomeReadFirst(original_filename, stored, tess) ==
    LET Classified(file_type) ==
            IF file_type.ty = "NoneType"
            THEN Raise("FileProcessingError", "Unsupported file type for " \o original_filename,
                       <<"read_file_content", "validate_file_type">>)
            ELSE ReadAndParse(file_type.s, original_filename, stored, tess)
        Read(raw_content_bytes) ==
            IF raw_content_bytes.ty = "NoneType"
            THEN Raise("FileProcessingError",
                       "Could not read content from " \o RAW_RECEIPTS_DIR(original_filename),
                       <<"read_file_content">>)
            ELSE Classified(validate_file_type(PyStr(original_filename)))
    IN  Read(read_file_content(stored))

\* lines 279-281, then the rest
ParseOutcome(original_filename, stored, tess) ==
    LET Classified(file_type) ==
            IF file_type.ty = "NoneType"
            THEN Raise("FileProcessingError", "Unsupported file type for " \o original_filename,
                       <<"validate_file_type">>)
            ELSE ReadAndParse(file_type.s, original_filename, stored, tess)
    IN  Classified(validate_file_type(PyStr(original_filename)))

(***************************************************************************)
(* The running application: the directory data/raw_receipts, the OCR       *)
(* engine of the host, and the upload sessions (ui/pages/upload.py), each  *)
(* of which saves an uploaded file and then parses it.                     *)
(***************************************************************************)
\* the most files saved in a behaviour
MaxCalls == 3
Sessions == {1, 2}

\* the files a user may upload: name and bytes
Uploads ==
    { [name |-> "receipt.txt", bytes |-> "receipt"],
      [name |-> "receipt.txt", bytes |-> "no_amount"],
      [name |-> "scan.pdf", bytes |-> "pdf_scan"],
      [name |-> "photo.jpg", bytes |-> "photo"],
      [name |-> "document.docx", bytes |-> "receipt"] }

\* the names parse_document is called with
ParseNames ==
    {u.name : u \in Uploads}
    \cup {"bill.pdf", "PHOTO.PNG", "README", "pdf", "notes.TXT", "archive.tar.gz"}
Paths == {RAW_RECEIPTS_DIR(n) : n \in ParseNames}

VARIABLES
    disk,        \* path -> what the file system holds there
    tesseract,   \* the OCR engine is installed on the host
    runs,        \* session -> the iteration of the upload loop it is in
    calls,       \* the calls of parse_document that finished, in order
    saves,       \* number of files saved
    call,        \* a direct call of one function: arguments and result
    tables,      \* the rows of the database tables
    answer,      \* the last call of a database function and what it returned
    removed,     \* <<receipt_id, owner_id>> -> number of deletions that returned True
    session_state, \* st.session_state: logged_in, username, user_id
    attempt,     \* the last call of an AuthManager method, the session and the
                 \* users before it
    batch        \* one run of the upload loop over the files of a batch

vars == <<disk, tesseract, runs, calls, saves, call,
          tables, answer, removed, session_state, attempt, batch>>
\* the variables of the database, of the login session and of the batch
stored_vars == <<tables, answer, removed, session_state, attempt, batch>>
\* the variables of the upload loop and of the direct calls
upload_vars == <<disk, tesseract, runs, calls, saves, call>>

\* parse_document tabulated over its inputs
ParseTable ==
    [n \in ParseNames, c \in Stored, t \in BOOLEAN |-> ParseOutcome(n, c, t)]

\* a variant that keeps the record of an earlier call when the present call
\* yields none
parse_document_stale(file_path, original_filename) ==
    LET Kept(outcome, earlier) ==
            IF outcome.kind # "return" /\ earlier # {}
            THEN calls[CHOOSE i \in earlier : \A j \in earlier : i <= j].outcome
            ELSE outcome
    IN  Kept(ParseTable[original_filename, disk[file_path], tesseract],
             {i \in 1..Len(calls) : calls[i].outcome.kind = "return"})

\* parse_document(file_path, original_filename), lines 267-351
parse_document(file_path, original_filename) ==
    ParseTable[original_filename, disk[file_path], tesseract]

\* database.py lines 44-50 (create_all on a new file): every table is empty
NoTables == [users |-> << >>, vendors |-> << >>, categories |-> << >>, receipts |-> << >>]
NoAnswer == [op |-> "none", args |-> << >>, result |-> PyNone, before |-> NoTables, n |-> 0]
\* auth_manager.py lines 7-13
LoggedOut == [logged_in |-> FALSE, username |-> PyNone, user_id |-> PyNone]
NoAttempt ==
    [op |-> "none", args |-> << >>, result |-> PyNone, before |-> LoggedOut, users |-> << >>]
\* upload.py lines 32-39: no file is uploaded
NoBatch ==
    [files |-> << >>, i |-> 1, pc |-> "done", parsed_data |-> PyNone,
     parsed_results |-> << >>, parsing_errors |-> << >>, log |-> << >>]
\* the users that own receipts and the receipt ids that calls name
OwnerIds == {1, 2}
ReceiptIds == {1, 2}
NothingStored ==
    /\ tables = NoTables
    /\ answer = NoAnswer
    /\ removed = [pair \in ReceiptIds \X OwnerIds |-> 0]
    /\ session_state = LoggedOut
    /\ attempt = NoAttempt
    /\ batch = NoBatch

Idle == [pc |-> "idle", name |-> "", bytes |-> "", read |-> "", outcome |-> PyNone]
NoCall == [op |-> "none", arg |-> PyNone, done |-> TRUE, result |-> PyNone]
EmptyDisk == [p \in Paths |-> Absent]

Init ==
    /\ disk = EmptyDisk
    /\ tesseract \in BOOLEAN
    /\ runs = [u \in Sessions |-> Idle]
    /\ calls = << >>
    /\ saves = 0
    /\ call = NoCall
    /\ NothingStored

\* upload.py line 46 with save_uploaded_file (ingestion.py lines 18-42)
\* writing the file
SaveUploadedFile(u, f) ==
    /\ runs[u].pc = "idle"
    /\ saves < MaxCalls
    /\ disk' = [disk EXCEPT ![RAW_RECEIPTS_DIR(f.name)] = f.bytes]
    /\ runs' = [runs EXCEPT ![u] = [Idle EXCEPT !.pc = "saved", !.name = f.name,
                                                !.bytes = f.bytes]]
    /\ saves' = saves + 1
    /\ UNCHANGED <<tesseract, calls, call>>
    /\ UNCHANGED stored_vars

\* save_uploaded_file failing to open the file (ingestion.py lines 40-42):
\* it returns (None, None) and upload.py lines 95-97 record the error
SaveFails(u, f) ==
    /\ runs[u].pc = "idle"
    /\ saves < MaxCalls
    /\ runs' = [runs EXCEPT ![u] = [Idle EXCEPT !.pc = "done", !.name = f.name,
                                                !.bytes = f.bytes,
                                                !.outcome = PyStr("File save error")]]
    /\ saves' = saves + 1
    /\ UNCHANGED <<disk, tesseract, calls, call>>
    /\ UNCHANGED stored_vars

\* upload.py lines 48-93: parse_document on the saved path
ParseDocument(u) ==
    /\ runs[u].pc = "saved"
    /\ LET Parsed(file_path, outcome) ==
               /\ runs' = [runs EXCEPT ![u].pc = "done", ![u].read = disk[file_path],
                                       ![u].outcome = outcome]
               /\ calls' = Append(calls, [name |-> runs[u].name, content |-> disk[file_path],
                                          outcome |-> outcome])
       IN  Parsed(RAW_RECEIPTS_DIR(runs[u].name),
                  parse_document(RAW_RECEIPTS_DIR(runs[u].name), runs[u].name))
    /\ UNCHANGED <<disk, tesseract, saves, call>>
    /\ UNCHANGED stored_vars

\* upload.py lines 99-100 and 41: on to the next uploaded file
NextFile(u) ==
    /\ runs[u].pc = "done"
    /\ runs' = [runs EXCEPT ![u] = Idle]
    /\ UNCHANGED <<disk, tesseract, calls, saves, call>>
    /\ UNCHANGED stored_vars

Next ==
    \/ \E u \in Sessions, f \in Uploads : SaveUploadedFile(u, f)
    \/ \E u \in Sessions, f \in Uploads : SaveFails(u, f)
    \/ \E u \in Sessions : ParseDocument(u)
    \/ \E u \in Sessions : NextFile(u)

Spec == Init /\ [][Next]_vars

(***************************************************************************)
(* processing/algorithms/search.py: HashedIndex.  A record is a dict       *)
(* (a TLA+ record of Python values); the index is the dict from a key to   *)
(* the places, in order, of the records filed under it.                    *)
(***************************************************************************)
PyList(items) == [ty |-> "list", items |-> items]

\* line 140: the key a value is filed under
IndexKey(value) == IF value.ty = "str" THEN PyStr(Lower(value.s)) ELSE value

\* HashedIndex._build_index(records), lines 135-143 (places counted from 1)
build_index(records, field) ==
    LET Filed == {i \in 1..Len(records) : records[i][field] # PyNone}
    IN  [key \in {IndexKey(records[i][field]) : i \in Filed} |->
            {i \in Filed : IndexKey(records[i][field]) = key}]

\* [records_list[i] for i in indices], line 162
RECURSIVE RecordsAt(_, _, _)
RecordsAt(records_list, indices, i) ==
    IF i > Len(records_list) THEN << >>
    ELSE (IF i \in indices THEN <<records_list[i]>> ELSE << >>)
             \o RecordsAt(records_list, indices, i + 1)

\* a variant of search that looks a str query up in lower case whatever
\* case_sensitive says
search_lowered(index, query, case_sensitive, records_list) ==
    LET Under(key) == IF key \in DOMAIN index THEN index[key] ELSE {}
    IN  IF records_list = PyNone THEN << >>
        ELSE RecordsAt(records_list.items, Under(IndexKey(query)), 1)

\* HashedIndex.search(query, case_sensitive, records_list), lines 153-164
search(index, query, case_sensitive, records_list) ==
    LET normalized_query == IF query.ty = "str" /\ ~case_sensitive
                            THEN PyStr(Lower(query.s)) ELSE query
        indices == IF normalized_query \in DOMAIN index THEN index[normalized_query] ELSE {}
    IN  IF records_list = PyNone THEN << >>
        ELSE RecordsAt(records_list.items, indices, 1)

\* test_processing_algorithms.py lines 6-13, the vendor of each record
SAMPLE_RECORDS ==
    <<[id |-> PyInt(1), vendor |-> PyStr("Walmart")],
      [id |-> PyInt(2), vendor |-> PyStr("Target")],
      [id |-> PyInt(3), vendor |-> PyStr("WALMART Supercenter")],
      [id |-> PyInt(4), vendor |-> PyStr("Local Cafe")],
      [id |-> PyInt(6), vendor |-> PyStr("Target")]>>
QueryInputs ==
    [query : {PyStr(q) : q \in {"Walmart", "walmart", "WALMART", "Target", "TARGET",
                                "ZMart", "local cafe", "WALMART Supercenter"}},
     case_sensitive : BOOLEAN,
     records_list : {PyNone, PyList(SAMPLE_RECORDS)}]

(***************************************************************************)
(* Direct calls.  A behaviour of SpecCalls is one call of one function of  *)
(* the processing package: `call` holds the arguments, then the result.    *)
(***************************************************************************)
\* arguments of validate_file_type
FileNameInputs ==
    {PyStr(n) : n \in {"receipt.jpg", "photo.JPEG", "scan.png", "anim.gif", "old.bmp",
                       "bill.pdf", "BILL.PDF", "notes.txt", "Notes.TXT", "document.docx",
                       "archive.tar.gz", "a.b.txt", "file.", "noext", "pdf", "txt", "jpg",
                       "", ".txt"}}
    \cup {PyNone, PyInt(123)}

\* arguments of _extract_from_text
TextInputs ==
    {Receipt, NoAmountText, AmountOnlyText, PoundText, BillingText, HalfBillingText, "", " \n"}
    \cup AmountTexts \cup CandidateTexts \cup DateTexts \cup ShapeTexts
    \cup TopLineTexts \cup NamedVendorTexts \cup DiscardedSymbolTexts

\* dates given as strings: one in the first format of formats_to_try, one in
\* no format
DateStringInputs == {"2023-01-01", "someday"}

\* keyword arguments of ParsedReceiptData: each field left out or given
Choice(f, values) == {<< >>} \cup {f :> v : v \in values}
FieldInputs ==
    {a @@ b @@ c @@ d :
        a \in Choice("vendor_name", {PyStr(""), PyStr("Shop"), PyStr(" ")}),
        b \in Choice("transaction_date",
                         {PyDate(2023, 1, 1), PyNone} \cup {PyStr(v) : v \in DateStringInputs}),
        c \in Choice("amount", {PyFloat(4575), PyFloat(0), PyInt(0 - 5), PyStr("$45.75"),
                                PyStr("abc")}),
        d \in Choice("currency", {PyStr("eur"), PyStr("US$"), PyStr("rupees"), PyNone,
                                  PyStr(" inr "), PyStr("EUR")})}

Pending(op, arg) == [op |-> op, arg |-> arg, done |-> FALSE, result |-> PyNone]

InitCalls ==
    /\ NothingStored
    /\ runs = [u \in Sessions |-> Idle]
    /\ calls = << >>
    /\ saves = 0
    /\ tesseract \in BOOLEAN
    /\ \/ /\ disk = EmptyDisk
          /\ \/ \E file_name \in FileNameInputs :
                    call = Pending("validate_file_type", file_name)
             \/ \E text \in TextInputs : call = Pending("_extract_from_text", text)
             \/ \E fields \in FieldInputs : call = Pending("ParsedReceiptData", fields)
             \/ \E query \in QueryInputs : call = Pending("HashedIndex.search", query)
             \/ \E image_bytes \in Contents : call = Pending("detect_language", image_bytes)
       \/ \E original_filename \in ParseNames, stored \in Stored :
             /\ disk = [EmptyDisk EXCEPT ![RAW_RECEIPTS_DIR(original_filename)] = stored]
             /\ call = Pending("parse_document", original_filename)

Finish(result) == call' = [call EXCEPT !.done = TRUE, !.result = result]

CallValidateFileType ==
    /\ call.op = "validate_file_type" /\ ~call.done
    /\ Finish(validate_file_type(call.arg))
    /\ UNCHANGED <<disk, tesseract, runs, calls, saves>>
    /\ UNCHANGED stored_vars

CallExtractFromText ==
    /\ call.op = "_extract_from_text" /\ ~call.done
    /\ Finish(extracted_data[call.arg])
    /\ UNCHANGED <<disk, tesseract, runs, calls, saves>>
    /\ UNCHANGED stored_vars

CallParsedReceiptData ==
    /\ call.op = "ParsedReceiptData" /\ ~call.done
    /\ Finish(ParsedReceiptData(call.arg))
    /\ UNCHANGED <<disk, tesseract, runs, calls, saves>>
    /\ UNCHANGED stored_vars

CallParseDocument ==
    /\ call.op = "parse_document" /\ ~call.done
    /\ Finish(parse_document(RAW_RECEIPTS_DIR(call.arg), call.arg))
    /\ UNCHANGED <<disk, tesseract, runs, calls, saves>>
    /\ UNCHANGED stored_vars

CallHashedIndexSearch ==
    /\ call.op = "HashedIndex.search" /\ ~call.done
    /\ Finish(search(build_index(SAMPLE_RECORDS, "vendor"), call.arg.query,
                     call.arg.case_sensitive, call.arg.records_list))
    /\ UNCHANGED <<disk, tesseract, runs, calls, saves>>
    /\ UNCHANGED stored_vars

CallDetectLanguage ==
    /\ call.op = "detect_language" /\ ~call.done
    /\ Finish(detect_language(call.arg, tesseract))
    /\ UNCHANGED <<disk, tesseract, runs, calls, saves>>
    /\ UNCHANGED stored_vars

NextCalls ==
    \/ CallHashedIndexSearch
    \/ CallDetectLanguage
    \/ CallValidateFileType
    \/ CallExtractFromText
    \/ CallParsedReceiptData
    \/ CallParseDocument

SpecCalls == InitCalls /\ [][NextCalls]_vars

(***************************************************************************)
(* database/crud.py on the SQLite database of database/database.py.        *)
(* A row is a record of Python values; vendors and categories are never    *)
(* deleted, so their tables are the sequences of names in id order; the    *)
(* receipts table is the sequence of its rows in id order.  A name is the  *)
(* sequence of its characters, a character outside ASCII being written as  *)
(* its code point.                                                         *)
(***************************************************************************)
PyBool(b) == [ty |-> "bool", b |-> b]
IntegrityError == [ty |-> "IntegrityError"]

\* the characters of an ASCII string
Chars(s) == [i \in 1..Len(s) |-> Ch(s, i)]
\* the letters E and e with an acute accent
CapitalEAcute == "U+00C9"
SmallEAcute == "U+00E9"

\* func.lower on SQLite (database.py line 11): lower() folds the ASCII
\* letters only
func_lower(name) == [i \in 1..Len(name) |-> LowerCh(name[i])]

\* an INTEGER PRIMARY KEY without AUTOINCREMENT (models.py line 52): SQLite
\* gives a new row the largest id in the table plus one
NextRowId(ids) == GreatestOr0(ids) + 1

\* crud.py lines 85-89, 95-99, 184-188, 194-198: the first row whose lowered
\* name equals the lowered value (never so for NULL), else a new row, which
\* the NOT NULL constraint on name (models.py lines 29, 41) refuses for None
MatchOrCreate(names, v) ==
    LET Found(i) ==
            IF i # 0 THEN [ok |-> TRUE, names |-> names, id |-> PyInt(i)]
            ELSE IF v.ty # "str" THEN [ok |-> FALSE, names |-> names, id |-> PyNone]
            ELSE [ok |-> TRUE, names |-> Append(names, v.s), id |-> PyInt(Len(names) + 1)]
    IN  Found(LeastOr0({i \in 1..Len(names) :
                           v.ty = "str" /\ func_lower(names[i]) = func_lower(v.s)}))

\* a variant that compares the names as they are written
MatchExactOrCreate(names, v) ==
    LET Found(i) ==
            IF i # 0 THEN [ok |-> TRUE, names |-> names, id |-> PyInt(i)]
            ELSE IF v.ty # "str" THEN [ok |-> FALSE, names |-> names, id |-> PyNone]
            ELSE [ok |-> TRUE, names |-> Append(names, v.s), id |-> PyInt(Len(names) + 1)]
    IN  Found(LeastOr0({i \in 1..Len(names) : v.ty = "str" /\ names[i] = v.s}))

\* no row is looked up or created
NoRow(names) == [ok |-> TRUE, names |-> names, id |-> PyNone]

\* bool(v) of None and of a str
Truthy(v) == v.ty = "str" /\ Len(v.s) # 0

\* the place in the table of the row with this id and this owner, 0 if none
RowIndex(db, receipt_id, owner_id) ==
    LeastOr0({i \in 1..Len(db.receipts) :
                 /\ db.receipts[i].id = PyInt(receipt_id)
                 /\ db.receipts[i].owner_id = PyInt(owner_id)})

\* the Receipt object that the session loads from a row: its column values
Column(v) ==
    IF v.ty = "int" THEN PyInt(v.n) ELSE IF v.ty = "float" THEN PyFloat(v.h) ELSE PyNone
Loaded(row) ==
    [id |-> Column(row.id), owner_id |-> Column(row.owner_id),
     vendor_id |-> Column(row.vendor_id), category_id |-> Column(row.category_id),
     amount |-> Column(row.amount)]

\* a variant that finds the row by its id alone
get_receipt_of_anyone(db, receipt_id, owner_id) ==
    LET Row(i) == IF i = 0 THEN PyNone ELSE Loaded(db.receipts[i])
    IN  Row(LeastOr0({i \in 1..Len(db.receipts) : db.receipts[i].id = PyInt(receipt_id)}))

\* get_receipt_by_id(db, receipt_id, owner_id), line 164
get_receipt_by_id(db, receipt_id, owner_id) ==
    LET Row(i) == IF i = 0 THEN PyNone ELSE Loaded(db.receipts[i])
    IN  Row(RowIndex(db, receipt_id, owner_id))

\* create_receipt(db, owner_id, vendor_name, ..., amount, category_name),
\* lines 84-119
create_receipt(db, owner_id, vendor_name, amount, category_name) ==
    LET vendor == MatchOrCreate(db.vendors, vendor_name)
        category == IF Truthy(category_name)
                    THEN MatchOrCreate(db.categories, category_name)
                    ELSE NoRow(db.categories)
        db_receipt == [id |-> PyInt(NextRowId({db.receipts[i].id.n : i \in 1..Len(db.receipts)})),
                       owner_id |-> PyInt(owner_id),
                       vendor_id |-> vendor.id,
                       category_id |-> category.id,
                       amount |-> amount]
    IN  IF ~vendor.ok \/ ~category.ok THEN [tables |-> db, result |-> IntegrityError]
        ELSE [tables |-> [db EXCEPT !.vendors = vendor.names,
                                    !.categories = category.names,
                                    !.receipts = Append(@, db_receipt)],
              result |-> Loaded(db_receipt)]

\* update_receipt(db, receipt_id, owner_id, data), lines 177-213
update_receipt(db, receipt_id, owner_id, data) ==
    LET db_receipt == get_receipt_by_id(db, receipt_id, owner_id)
        vendor == IF "vendor_name" \in DOMAIN data
                  THEN MatchOrCreate(db.vendors, data["vendor_name"])
                  ELSE NoRow(db.vendors)
        category == IF "category_name" \in DOMAIN data
                    THEN MatchOrCreate(db.categories, data["category_name"])
                    ELSE NoRow(db.categories)
        \* lines 190, 200, 203
        Named(key) ==
            IF key = "vendor_id" /\ "vendor_name" \in DOMAIN data THEN vendor.id
            ELSE IF key = "category_id" /\ "category_name" \in DOMAIN data THEN category.id
            ELSE db_receipt[key]
        \* lines 206-208, for each attribute of the row, over the keys that
        \* lines 183 and 193 left in data
        Set(key) ==
            IF key \in DOMAIN data \ {"vendor_name", "category_name"} THEN data[key]
            ELSE Named(key)
        Updated(row) ==
            [tables |-> [db EXCEPT !.vendors = vendor.names,
                                   !.categories = category.names,
                                   !.receipts[RowIndex(db, receipt_id, owner_id)] = row],
             result |-> Loaded(row)]
    IN  IF db_receipt = PyNone THEN [tables |-> db, result |-> PyNone]
        ELSE IF ~vendor.ok \/ ~category.ok THEN [tables |-> db, result |-> IntegrityError]
        ELSE Updated([id |-> Set("id"), owner_id |-> Set("owner_id"),
                      vendor_id |-> Set("vendor_id"), category_id |-> Set("category_id"),
                      amount |-> Set("amount")])

\* the rows of a table without the one at place i
Without(rows, i) == SubSeq(rows, 1, i - 1) \o SubSeq(rows, i + 1, Len(rows))

\* delete_receipt(db, receipt_id, owner_id), lines 223-230
delete_receipt(db, receipt_id, owner_id) ==
    LET db_receipt == get_receipt_by_id(db, receipt_id, owner_id)
    IN  IF db_receipt # PyNone
        THEN [tables |-> [db EXCEPT !.receipts = Without(@, RowIndex(db, receipt_id, owner_id))],
              result |-> PyBool(TRUE)]
        ELSE [tables |-> db, result |-> PyBool(FALSE)]

\* calls of the database functions, each on a session of its own
MaxDbCalls == 4
\* 'café', 'Café' and 'CAFÉ'
VendorNames ==
    {Chars("caf") \o <<SmallEAcute>>, Chars("Caf") \o <<SmallEAcute>>,
     Chars("CAF") \o <<CapitalEAcute>>}
CategoryNames == {PyNone, PyStr(Chars("Food"))}
UpdateData ==
    {"vendor_name" :> PyStr(Chars("CAF") \o <<CapitalEAcute>>),
     "category_name" :> PyStr(Chars("FOOD")),
     "category_name" :> PyNone, "category_id" :> PyNone, "amount" :> PyFloat(750)}

Serve(op, args, outcome) ==
    /\ answer.n < MaxDbCalls
    /\ tables' = outcome.tables
    /\ answer' = [op |-> op, args |-> args, result |-> outcome.result,
                  before |-> tables, n |-> answer.n + 1]
    /\ UNCHANGED <<session_state, attempt, batch>>
    /\ UNCHANGED upload_vars

CreateReceipt(owner_id, vendor_name, category_name) ==
    /\ Serve("create_receipt", <<owner_id, vendor_name, category_name>>,
             create_receipt(tables, owner_id, PyStr(vendor_name), PyFloat(500), category_name))
    /\ UNCHANGED removed

GetReceiptById(receipt_id, owner_id) ==
    /\ Serve("get_receipt_by_id", <<receipt_id, owner_id>>,
             [tables |-> tables, result |-> get_receipt_by_id(tables, receipt_id, owner_id)])
    /\ UNCHANGED removed

UpdateReceipt(receipt_id, owner_id, data) ==
    /\ Serve("update_receipt", <<receipt_id, owner_id, data>>,
             update_receipt(tables, receipt_id, owner_id, data))
    /\ UNCHANGED removed

DeleteReceipt(receipt_id, owner_id) ==
    /\ Serve("delete_receipt", <<receipt_id, owner_id>>,
             delete_receipt(tables, receipt_id, owner_id))
    /\ removed' = IF get_receipt_by_id(tables, receipt_id, owner_id) # PyNone
                  THEN [removed EXCEPT ![<<receipt_id, owner_id>>] = @ + 1]
                  ELSE removed

InitDb ==
    /\ Init
    /\ tesseract = TRUE

NextDb ==
    \/ \E owner_id \in OwnerIds, vendor_name \in VendorNames, category_name \in CategoryNames :
          CreateReceipt(owner_id, vendor_name, category_name)
    \/ \E receipt_id \in ReceiptIds, owner_id \in OwnerIds : GetReceiptById(receipt_id, owner_id)
    \/ \E receipt_id \in ReceiptIds, owner_id \in OwnerIds, data \in UpdateData :
          UpdateReceipt(receipt_id, owner_id, data)
    \/ \E receipt_id \in ReceiptIds, owner_id \in OwnerIds : DeleteReceipt(receipt_id, owner_id)

SpecDb == InitDb /\ [][NextDb]_vars

(***************************************************************************)
(* ui/auth_manager.py: the login session kept in st.session_state, over    *)
(* the users that create_user (database/crud.py) has registered.           *)
(***************************************************************************)
\* utils/security.py lines 9-29: the bcrypt hash of a password (its salt left
\* out) and lines 31-56: whether a password is the one that was hashed
hash_password(password) == [scheme |-> "bcrypt", of |-> password]
verify_password(password, hashed_password) == hashed_password = hash_password(password)

\* get_user_by_username(db, username), crud.py line 20: the id of the first
\* user whose lowered username equals the lowered name, 0 for None
get_user_by_username(db, username) ==
    LeastOr0({i \in 1..Len(db.users) : func_lower(db.users[i].username) = func_lower(username)})

\* create_user(db, username, password), crud.py lines 42-51
create_user(db, username, password) ==
    IF get_user_by_username(db, username) # 0
    THEN [tables |-> db, result |-> [ty |-> "ValueError"]]
    ELSE [tables |-> [db EXCEPT !.users = Append(@, [username |-> username,
                                                      password_hash |-> hash_password(password)])],
          result |-> PyInt(Len(db.users) + 1)]

\* a variant of login that leaves the session as it is when the login fails
login_keeping_session(db, session, username, password) ==
    LET user == get_user_by_username(db, username)
    IN  IF user # 0 /\ verify_password(password, db.users[user].password_hash)
        THEN [session |-> [logged_in |-> TRUE, username |-> PyStr(db.users[user].username),
                           user_id |-> PyInt(user)],
              result |-> PyBool(TRUE)]
        ELSE [session |-> session, result |-> PyBool(FALSE)]

\* AuthManager.login(username, password), lines 15-32; session is
\* st.session_state before the call
login(db, session, username, password) ==
    LET user == get_user_by_username(db, username)
    IN  IF user # 0 /\ verify_password(password, db.users[user].password_hash)
        THEN [session |-> [logged_in |-> TRUE, username |-> PyStr(db.users[user].username),
                           user_id |-> PyInt(user)],
              result |-> PyBool(TRUE)]
        ELSE [session |-> LoggedOut, result |-> PyBool(FALSE)]

\* AuthManager.logout(), lines 34-38
logout(session) == [session |-> LoggedOut, result |-> PyNone]

UserNames == {Chars("alice"), Chars("Bob")}
LoginNames == {Chars("alice"), Chars("ALICE"), Chars("bob"), Chars("carol")}
Passwords == {"pw-1", "pw-2"}

CreateUser(username, password) ==
    /\ Serve("create_user", <<username, password>>, create_user(tables, username, password))
    /\ UNCHANGED removed

Attempt(op, args, outcome) ==
    /\ session_state' = outcome.session
    /\ attempt' = [op |-> op, args |-> args, result |-> outcome.result,
                   before |-> session_state, users |-> tables.users]
    /\ UNCHANGED <<upload_vars, batch>>

Login(username, password) ==
    /\ Attempt("login", <<username, password>>,
               login(tables, session_state, username, password))
    /\ UNCHANGED <<tables, answer, removed>>

Logout ==
    /\ Attempt("logout", << >>, logout(session_state))
    /\ UNCHANGED <<tables, answer, removed>>

NextAuth ==
    \/ \E username \in UserNames, password \in Passwords : CreateUser(username, password)
    \/ \E username \in LoginNames, password \in Passwords : Login(username, password)
    \/ Logout

SpecAuth == InitDb /\ [][NextAuth]_vars

(***************************************************************************)
(* ui/pages/upload.py lines 41-100: the loop over the files of one batch.  *)
(* batch.i is the place of the file in hand, batch.pc the stage it is at,  *)
(* batch.log the stage calls made so far: stage, file and whether the call *)
(* gave what the next stage needs.                                         *)
(***************************************************************************)
MaxBatch == 2
RECURSIVE Batches(_)
Batches(n) ==
    IF n = 0 THEN {<< >>}
    ELSE Batches(n - 1) \cup {Append(files, f) : files \in Batches(n - 1), f \in Uploads}

\* lines 99-100 and 41: on to the next file, or out of the loop
Advanced(b) ==
    [b EXCEPT !.i = @ + 1, !.pc = IF b.i + 1 > Len(b.files) THEN "done" ELSE "save",
              !.parsed_data = PyNone]
Logged(b, stage, ok) ==
    [b EXCEPT !.log = Append(@, [stage |-> stage, file |-> b.i, ok |-> ok])]

\* a variant that appends nothing to parsing_errors
FailedUnrecorded(b, error) == Advanced(b)

\* lines 77, 86, 89, 97: the error is appended to parsing_errors
Failed(b, error) ==
    Advanced([b EXCEPT !.parsing_errors = Append(@, [file |-> b.i, error |-> error])])

\* line 46, save_uploaded_file returning the path (ingestion.py lines 31-39)
BatchSave ==
    /\ batch.pc = "save"
    /\ disk' = [disk EXCEPT ![RAW_RECEIPTS_DIR(batch.files[batch.i].name)] =
                                batch.files[batch.i].bytes]
    /\ batch' = [Logged(batch, "save_uploaded_file", TRUE) EXCEPT !.pc = "parse"]
    /\ UNCHANGED <<tesseract, runs, calls, saves, call>>
    /\ UNCHANGED <<tables, answer, removed, session_state, attempt>>

\* line 46, save_uploaded_file returning (None, None) (ingestion.py lines
\* 40-42), and lines 95-97
BatchSaveFails ==
    /\ batch.pc = "save"
    /\ batch' = Failed(Logged(batch, "save_uploaded_file", FALSE), "File save error")
    /\ UNCHANGED upload_vars
    /\ UNCHANGED <<tables, answer, removed, session_state, attempt>>

\* lines 49-54 and 84-89: parse_document on the saved path
BatchParse ==
    /\ batch.pc = "parse"
    /\ LET original_filename == batch.files[batch.i].name
           Parsed(outcome) ==
               IF outcome.kind = "return"
               THEN [Logged(batch, "parse_document", TRUE) EXCEPT
                        !.pc = "store", !.parsed_data = outcome.data]
               ELSE Failed(Logged(batch, "parse_document", FALSE),
                           IF outcome.kind \in {"FileProcessingError", "ParsingError"}
                           THEN "Processing Error" ELSE "Unexpected Error")
       IN  batch' = Parsed(parse_document(RAW_RECEIPTS_DIR(original_filename),
                                          original_filename))
    /\ UNCHANGED upload_vars
    /\ UNCHANGED <<tables, answer, removed, session_state, attempt>>

\* lines 55-79: create_receipt with the validated fields, for the user
\* logged in
BatchStore ==
    /\ batch.pc = "store"
    /\ LET Name(v) == IF v.ty = "str" THEN PyStr(Chars(v.s)) ELSE v
           Stored_(outcome) ==
               /\ tables' = outcome.tables
               /\ batch' =
                     IF outcome.result = IntegrityError
                     THEN Failed(Logged(batch, "create_receipt", FALSE), "DB Error")
                     ELSE Advanced([Logged(batch, "create_receipt", TRUE) EXCEPT
                                       !.parsed_results = Append(@, outcome.result.id)])
       IN  Stored_(create_receipt(tables, session_state.user_id.n,
                                  Name(batch.parsed_data["vendor_name"]),
                                  batch.parsed_data["amount"],
                                  Name(batch.parsed_data["category_name"])))
    /\ UNCHANGED upload_vars
    /\ UNCHANGED <<answer, removed, session_state, attempt>>

\* a user is logged in (line 18) and has chosen the files of a batch
InitBatch ==
    /\ disk = EmptyDisk
    /\ tesseract \in BOOLEAN
    /\ runs = [u \in Sessions |-> Idle]
    /\ calls = << >>
    /\ saves = 0
    /\ call = NoCall
    /\ tables = NoTables
    /\ answer = NoAnswer
    /\ removed = [pair \in ReceiptIds \X OwnerIds |-> 0]
    /\ session_state = [logged_in |-> TRUE, username |-> PyStr(Chars("alice")),
                        user_id |-> PyInt(1)]
    /\ attempt = NoAttempt
    /\ \E files \in Batches(MaxBatch) \ {<< >>} :
          batch = [NoBatch EXCEPT !.files = files, !.pc = "save"]

NextBatch ==
    \/ BatchSave
    \/ BatchSaveFails
    \/ BatchParse
    \/ BatchStore

\* the loop is straight-line code: it goes on while a stage can run
SpecBatch == InitBatch /\ [][NextBatch]_vars /\ WF_vars(NextBatch)

(***************************************************************************)
(* Properties.                                                             *)
(***************************************************************************)
\* the direct call of `op` has returned
Called(op) == call.op = op /\ call.done
\* what the path given to the direct call of parse_document holds
ParsedContent == disk[RAW_RECEIPTS_DIR(call.arg)]

SupportedExtensions == {"jpg", "jpeg", "png", "gif", "bmp", "pdf", "txt"}

\* the type a name has by its extension, the text after the last '.', a
\* name without '.' having none
ClaimedType(file_name) ==
    IF file_name.ty # "str" THEN PyNone
    ELSE IF LastIndexOfCh(file_name.s, ".", Len(file_name.s)) = 0 THEN PyNone
    ELSE IF file_extension(file_name.s) \in {"jpg", "jpeg", "png", "gif", "bmp"}
    THEN PyStr("image")
    ELSE IF file_extension(file_name.s) = "pdf" THEN PyStr("pdf")
    ELSE IF file_extension(file_name.s) = "txt" THEN PyStr("text")
    ELSE PyNone

\* C1: validate_file_type returns 'image', 'pdf' or 'text' for the supported
\* extensions, whatever their case, and None for every other input: another
\* extension, a name without '.', the empty string, a value that is no string.
C1_ClassifiesEveryInput ==
    Called("validate_file_type") => call.result = ClaimedType(call.arg)

\* C2: parse_document on a name with an unsupported extension raises
\* FileProcessingError "Unsupported file type" and no later stage has run:
\* the file is not read, no text is acquired, nothing is extracted or validated.
C2_UnsupportedStopsFirst ==
    Called("parse_document")
    /\ Contains(call.arg, ".") /\ file_extension(call.arg) \notin SupportedExtensions
    => /\ call.result.kind = "FileProcessingError"
       /\ call.result.message = "Unsupported file type for " \o call.arg
       /\ call.result.trace = <<"validate_file_type">>
       /\ call.result.data = PyNone

\* parse_document("document.docx") has failed although the path holds a
\* readable receipt
C2_UnsupportedRejected ==
    /\ Called("parse_document")
    /\ call.arg = "document.docx"
    /\ ParsedContent = "receipt"
    /\ call.result.kind = "FileProcessingError"

\* the required fields of a record are semantically valid
ValidRecord(data) ==
    /\ data["amount"].ty = "float" /\ data["amount"].h > 0
    /\ data["transaction_date"].ty = "date"
    /\ ValidDate(data["transaction_date"].y, data["transaction_date"].m,
                 data["transaction_date"].d)
    /\ data["vendor_name"].ty = "str" /\ Len(data["vendor_name"].s) >= 1
    /\ data["currency"].ty = "str"
    /\ Len(data["currency"].s) \in 1..5
    /\ \A i \in 1..Len(data["currency"].s) : Ch(data["currency"].s, i) \in UpperSet

\* C3: every ParsedReceiptData that is constructed, and every record
\* parse_document returns, has amount > 0, a real calendar date, a non-empty
\* vendor name and a currency of 1 to 5 uppercase letters.
C3_RecordsAreValid ==
    /\ Called("ParsedReceiptData") /\ call.result.ok => ValidRecord(call.result.data)
    /\ Called("parse_document") /\ call.result.kind = "return"
       => ValidRecord(call.result.data)

\* a record constructed from an amount given as text and a currency in
\* lower case with spaces around it
C3_RecordConstructed ==
    /\ Called("ParsedReceiptData")
    /\ "currency" \in DOMAIN call.arg /\ call.arg["currency"] = PyStr(" inr ")
    /\ "amount" \in DOMAIN call.arg /\ call.arg["amount"] = PyStr("$45.75")
    /\ call.result.ok
    /\ call.result.data["currency"] = PyStr("INR")
    /\ call.result.data["amount"] = PyFloat(4575)

\* the call is of a PDF without selectable text whose page OCR can read, and
\* the text OCR reads holds vendor, date and amount
ScannedPdf ==
    /\ Called("parse_document")
    /\ validate_file_type(PyStr(call.arg)) = PyStr("pdf")
    /\ ParsedContent \in Contents
    /\ Blob[ParsedContent].pdf.ok /\ Strip(Blob[ParsedContent].pdf.text) = ""
    /\ tesseract /\ Blob[ParsedContent].img /\ Blob[ParsedContent].ocr.ok
    /\ Strip(Blob[ParsedContent].ocr.text) # ""
    /\ RequiredFields \subseteq DOMAIN extracted_data[Strip(Blob[ParsedContent].ocr.text)]

\* C4: for a PDF whose text layer is empty parse_document falls back to OCR
\* over the same bytes and returns a validated record whenever the OCR text
\* holds vendor, date and amount.
C4_PdfFallsBackToOcr == ScannedPdf => call.result.kind = "return"

\* the text parse_document acquired is empty or only whitespace: the decoded
\* text of a text file, the page text of a PDF, the text OCR read from an image
AcquiredNoText ==
    /\ Called("parse_document")
    /\ ParsedContent \in Contents
    /\ \/ /\ validate_file_type(PyStr(call.arg)) = PyStr("text")
          /\ Strip(DecodedText(Blob[ParsedContent])) = ""
       \/ /\ validate_file_type(PyStr(call.arg)) = PyStr("pdf")
          /\ Blob[ParsedContent].pdf.ok /\ Strip(Blob[ParsedContent].pdf.text) = ""
       \/ /\ validate_file_type(PyStr(call.arg)) = PyStr("image")
          /\ tesseract /\ Blob[ParsedContent].img /\ Blob[ParsedContent].ocr.ok
          /\ Strip(Blob[ParsedContent].ocr.text) = ""

\* C5: whenever the text acquired is empty or whitespace-only parse_document
\* returns no record and raises the empty-text ParsingError: the message
\* about selectable text for a PDF, "No meaningful text extracted" otherwise.
C5_EmptyTextFailure ==
    AcquiredNoText
    => /\ call.result.kind = "ParsingError"
       /\ call.result.message =
             IF validate_file_type(PyStr(call.arg)) = PyStr("pdf")
             THEN "PDF " \o call.arg \o " has no selectable text. Please ensure it's a text-searchable PDF or convert it to an image (.png/.jpg) for OCR processing."
             ELSE "No meaningful text extracted from " \o call.arg \o "."

\* the direct call is parse_document on a name of the given type
ParsedAs(type) ==
    Called("parse_document") /\ validate_file_type(PyStr(call.arg)) = PyStr(type)

\* OCR of the stored bytes fails although the engine is installed: the image
\* does not decode, or recognition raises
OtherOcrError(stored) ==
    stored \in Contents /\ (~Blob[stored].img \/ ~Blob[stored].ocr.ok)

\* the kind and the message of what parse_document reports
Report(outcome) == <<outcome.kind, outcome.message>>

\* C6: the failure parse_document reports for an image when the OCR engine is
\* not installed differs, in kind or message, from the failure it reports for
\* the same name on any other OCR error.
C6_EngineFailureDistinct ==
    ParsedAs("image") /\ ~tesseract /\ ParsedContent \in Contents /\ Blob[ParsedContent].img
    => \A stored \in Contents :
          OtherOcrError(stored)
          => Report(call.result) # Report(ParseTable[call.arg, stored, TRUE])

\* keyword arguments that hold no date as a string; the dates
\* _extract_from_text extracts are date objects
NoDateStrings(fields) ==
    \A f \in DOMAIN fields \cap {"transaction_date", "billing_period_start",
                                 "billing_period_end"} : fields[f].ty # "str"
\* the required fields the keyword arguments leave out
MissingRequired(fields) == RequiredFields \ DOMAIN fields

\* the texts of a file of the given type that are not blank
TextsOf(type, b, tess) ==
    {text \in (IF type = PyStr("text") THEN {DecodedText(b)} ELSE {})
              \cup (IF type = PyStr("pdf") THEN PageText(b) ELSE {})
              \cup (IF type = PyStr("image") /\ tess /\ b.img THEN OcrText(b) ELSE {}) :
        Strip(text) # ""}
\* the text the direct call of parse_document acquired, if it acquired one
AcquiredTexts ==
    IF Called("parse_document") /\ ParsedContent \in Contents
    THEN TextsOf(validate_file_type(PyStr(call.arg)), Blob[ParsedContent], tesseract)
    ELSE {}

C8_RunsReadOwnBytes ==
    \A u \in Sessions :
        runs[u].pc = "done" /\ runs[u].read # "" => runs[u].read = runs[u].bytes

PeriodParses(lower_text) ==
    \E i \in 1..Len(billing_period_patterns) :
        LET Both(match) ==
                /\ match.ok
                /\ TryFormats(RemoveChars(Group(lower_text, match, 1), {"."}),
                              formats_to_try, 1).ok
                /\ TryFormats(RemoveChars(Group(lower_text, match, 2), {"."}),
                              formats_to_try, 1).ok
        IN  Both(Search(billing_period_patterns[i], lower_text, TRUE))
TextsWithPeriod == {text \in TextInputs : PeriodParses(Lower(text))}

\* C10: the result of _extract_from_text holds billing_period_start and
\* billing_period_end both, exactly when a billing-period pattern matches and
\* both of its dates parse, and neither otherwise; a record parse_document
\* returns has both or neither.
C10_BillingPeriodBothOrNeither ==
    /\ Called("_extract_from_text")
       => /\ "billing_period_start" \in DOMAIN call.result <=> call.arg \in TextsWithPeriod
          /\ "billing_period_end" \in DOMAIN call.result <=> call.arg \in TextsWithPeriod
    /\ Called("parse_document") /\ call.result.kind = "return"
       => (call.result.data["billing_period_start"] = PyNone
           <=> call.result.data["billing_period_end"] = PyNone)

\* _extract_from_text was called on a text whose billing period has a start
\* that parses and an end that does not, and left both out
C10_HalfPeriodDropped ==
    /\ Called("_extract_from_text")
    /\ call.arg = HalfBillingText
    /\ Search(billing_period_patterns[1], Lower(HalfBillingText), TRUE).ok
    /\ "billing_period_start" \notin DOMAIN call.result
    /\ "billing_period_end" \notin DOMAIN call.result

\* the currency that goes with a symbol
CurrencyOfSymbolClaimed(symbol) ==
    CASE symbol = "$" -> "USD"
      [] symbol = "€" -> "EUR"
      [] symbol = "£" -> "GBP"
      [] symbol = "₹" -> "INR"

\* the entry of a dictionary, or None when the key is absent
Entry(dict, key) == IF key \in DOMAIN dict THEN dict[key] ELSE PyNone

\* C11: an amount with a currency symbol in front that follows a total,
\* amount or due keyword is extracted by _extract_from_text as that amount,
\* with the currency of the symbol.
C11_SymbolAmountExtracted ==
    Called("_extract_from_text")
    => \A sample \in KeywordAmounts :
          call.arg = sample.text
          => /\ Entry(call.result, "amount") = PyFloat(sample.h)
             /\ Entry(call.result, "currency")
                  = PyStr(CurrencyOfSymbolClaimed(sample.symbol))

\* C12: when the amount stands next to an ISO currency code, before or
\* after the number, _extract_from_text reports that code in upper case as
\* the currency.
C12_IsoCodeReported ==
    Called("_extract_from_text")
    => \A sample \in IsoAmounts :
          call.arg = sample.text
          => /\ Entry(call.result, "amount") = PyFloat(sample.h)
             /\ Entry(call.result, "currency") = PyStr(sample.code)

\* the texts of the direct calls without a currency symbol or ISO code
PlainTexts == {text \in TextInputs : ~Search(CurrencyRegex, text, TRUE).ok}

\* C13: for a text without a currency symbol or ISO code the 'currency'
\* entry of _extract_from_text's result is 'USD', the default of
\* ParsedReceiptData, whether or not an amount was found.
C13_OneDefaultCurrency ==
    Called("_extract_from_text") /\ call.arg \in PlainTexts
    => Entry(call.result, "currency") = PyStr(DefaultCurrency)

\* what the extractor's format list makes of each date string
DatesOfStrings == {<<v, TryFormats(v, formats_to_try, 1)>> : v \in DateStringInputs}
DateOfString(v) == (CHOOSE pair \in DatesOfStrings : pair[1] = v)[2]

\* ParsedReceiptData was called with transaction_date given as a string
DateStringGiven ==
    /\ Called("ParsedReceiptData")
    /\ "transaction_date" \in DOMAIN call.arg
    /\ call.arg["transaction_date"].ty = "str"

\* C14: ParsedReceiptData accepts transaction_date as a string in any format
\* of formats_to_try and turns it into the date the extractor's list parses
\* it to; a string in none of the formats is a validation failure that names
\* transaction_date.
C14_AcceptsDateStrings ==
    DateStringGiven
    => LET Accepted(parsed) ==
               IF parsed.ok
               THEN IF call.result.ok
                    THEN call.result.data["transaction_date"] = parsed.date
                    ELSE /\ call.result.exc = "ValidationError"
                         /\ "transaction_date" \notin call.result.violated
               ELSE /\ ~call.result.ok
                    /\ call.result.exc = "ValidationError"
                    /\ "transaction_date" \in call.result.violated
       IN  Accepted(DateOfString(call.arg["transaction_date"].s))

\* C15: ParsedReceiptData rejects a vendor_name that is empty after trimming:
\* a name of spaces only is a validation failure that names vendor_name, like
\* the empty string.
C15_BlankVendorRejected ==
    /\ Called("ParsedReceiptData") /\ NoDateStrings(call.arg)
    /\ "vendor_name" \in DOMAIN call.arg
    /\ call.arg["vendor_name"].ty = "str" /\ Strip(call.arg["vendor_name"].s) = ""
    => /\ ~call.result.ok
       /\ "vendor_name" \in call.result.violated

\* fields that are valid as they are: a non-empty vendor, a date object, a
\* positive float amount and, if given, a currency of 1 to 5 uppercase letters
WellFormed(fields) ==
    /\ RequiredFields \subseteq DOMAIN fields
    /\ fields["vendor_name"].ty = "str" /\ Len(fields["vendor_name"].s) >= 1
    /\ fields["transaction_date"].ty = "date"
    /\ fields["amount"].ty = "float" /\ fields["amount"].h > 0
    /\ "currency" \in DOMAIN fields
       => /\ fields["currency"].ty = "str"
          /\ Len(fields["currency"].s) \in 1..MaxCurrencyLength
          /\ \A i \in 1..Len(fields["currency"].s) : Ch(fields["currency"].s, i) \in UpperSet
    /\ NoDateStrings(fields)

\* validating the fields of the record gives the record again
Revalidates(data) ==
    LET Again(result) == result.ok /\ result.data = data
    IN  Again(ParsedReceiptData(data))

\* C16: ParsedReceiptData leaves well-formed fields as they are, and
\* validating the fields of a record it produced, or of a record
\* parse_document returned, gives an equal record.
C16_ValidationIsIdentity ==
    /\ Called("ParsedReceiptData") /\ WellFormed(call.arg)
       => /\ call.result.ok
          /\ \A f \in DOMAIN call.arg : call.result.data[f] = call.arg[f]
    /\ Called("ParsedReceiptData") /\ call.result.ok => Revalidates(call.result.data)
    /\ Called("parse_document") /\ call.result.kind = "return"
       => Revalidates(call.result.data)

\* a record was made from well-formed fields with a currency
C16_WellFormedKept ==
    /\ Called("ParsedReceiptData")
    /\ WellFormed(call.arg)
    /\ "currency" \in DOMAIN call.arg
    /\ call.result.ok
    /\ call.result.data["currency"] = PyStr("EUR")
    /\ call.result.data["amount"] = PyFloat(4575)

\* the characters of a name with their case ignored: every letter lowered,
\* the accented capital included
IgnoringCase(s) ==
    [i \in 1..Len(s) |-> IF s[i] = CapitalEAcute THEN SmallEAcute ELSE LowerCh(s[i])]
DistinctIgnoringCase(names) ==
    \A i, j \in 1..Len(names) : IgnoringCase(names[i]) = IgnoringCase(names[j]) => i = j
\* the row that a created receipt refers to is the row of the table, as it
\* was before the call, whose name equals the given name ignoring case
RefersToMatch(names, v, id) ==
    \A i \in 1..Len(names) :
        (v.ty = "str" /\ IgnoringCase(names[i]) = IgnoringCase(v.s)) => id = PyInt(i)

\* C17: after any sequence of create_receipt and update_receipt calls on an
\* empty database no two vendor rows and no two category rows have names that
\* are equal ignoring case, and a receipt created with a name that matches
\* an existing row ignoring case refers to that row's id.
C17_NamesMatchedIgnoringCase ==
    /\ DistinctIgnoringCase(tables.vendors)
    /\ DistinctIgnoringCase(tables.categories)
    /\ (answer.op = "create_receipt" /\ answer.result # IntegrityError) =>
          /\ RefersToMatch(answer.before.vendors, PyStr(answer.args[2]),
                           answer.result.vendor_id)
          /\ RefersToMatch(answer.before.categories, answer.args[3],
                           answer.result.category_id)

\* the rows with this id in a table of receipts
RowsWithId(rows, receipt_id) == {i \in 1..Len(rows) : rows[i].id = PyInt(receipt_id)}
\* the last call named a receipt, present before the call, by an owner_id
\* that is not the receipt's
AskedByOther ==
    /\ answer.op \in {"get_receipt_by_id", "update_receipt", "delete_receipt"}
    /\ \E i \in RowsWithId(answer.before.receipts, answer.args[1]) :
          answer.before.receipts[i].owner_id # PyInt(answer.args[2])
\* the last call named a receipt, present before the call, by its owner_id
AskedByOwner ==
    \E i \in RowsWithId(answer.before.receipts, answer.args[1]) :
        answer.before.receipts[i].owner_id = PyInt(answer.args[2])
Refused ==
    /\ answer.result = IF answer.op = "delete_receipt" THEN PyBool(FALSE) ELSE PyNone
    /\ tables = answer.before
OnlyThroughOwner == AskedByOther => Refused

\* C18 as stated: a call that names a receipt by an owner_id other than the
\* receipt's is refused (None, None, False) and leaves the row as it was, and
\* delete_receipt with one receipt_id and owner_id returns True at most once.
C18_DeletedOnceForEver ==
    /\ OnlyThroughOwner
    /\ \A pair \in DOMAIN removed : removed[pair] <= 1

\* C18 restated: a call that names a receipt by an owner_id other than the
\* receipt's is refused and leaves the row as it was; delete_receipt by the
\* owner returns True and removes the row, and it returns False, changing
\* nothing, whenever no receipt with that id and owner is present, so on every
\* later call until a new receipt is given the same id.
C18_DeletedWhilePresent ==
    /\ OnlyThroughOwner
    /\ answer.op = "delete_receipt" =>
          IF AskedByOwner
          THEN /\ answer.result = PyBool(TRUE)
               /\ RowsWithId(tables.receipts, answer.args[1]) = {}
               /\ Len(tables.receipts) = Len(answer.before.receipts) - 1
          ELSE Refused
\* a second deletion of a deleted receipt, asked by its owner, returned False
C18_DeletedAgainRefused ==
    /\ answer.op = "delete_receipt"
    /\ removed[<<answer.args[1], answer.args[2]>>] = 1
    /\ ~AskedByOwner /\ ~AskedByOther
    /\ answer.result = PyBool(FALSE)

\* the row of the receipt that the last call named, as it was before the call
RowBefore ==
    answer.before.receipts[CHOOSE i \in RowsWithId(answer.before.receipts, answer.args[1]) : TRUE]

\* C19: update_receipt called by the owner with data {'category_name': None}
\* returns the receipt with category_id None, creates no Category row and
\* leaves the other fields of the receipt unchanged.
C19_NoneUncategorizes ==
    (/\ answer.op = "update_receipt"
     /\ AskedByOwner
     /\ answer.args[3] = ("category_name" :> PyNone)) =>
        /\ answer.result = [RowBefore EXCEPT !.category_id = PyNone]
        /\ tables.categories = answer.before.categories
        /\ tables.receipts =
              [i \in 1..Len(answer.before.receipts) |->
                  IF i \in RowsWithId(answer.before.receipts, answer.args[1])
                  THEN answer.result ELSE answer.before.receipts[i]]

\* the user, registered when the last call was made, that a username and a
\* password are the credentials of, 0 if the username is unknown or the
\* password is wrong
UserOf(username, password) ==
    LeastOr0({i \in 1..Len(attempt.users) :
                 /\ func_lower(attempt.users[i].username) = func_lower(username)
                 /\ attempt.users[i].password_hash = hash_password(password)})
SessionOf(i) ==
    [logged_in |-> TRUE, username |-> PyStr(attempt.users[i].username), user_id |-> PyInt(i)]
LoginSucceeded == attempt.op = "login" /\ UserOf(attempt.args[1], attempt.args[2]) # 0
LoginFailed == attempt.op = "login" /\ UserOf(attempt.args[1], attempt.args[2]) = 0

\* C20: after any sequence of login and logout calls logged_in is true
\* exactly when username and user_id are both set, to the user of the last
\* successful login; a login with an unknown username or a wrong password
\* returns False and leaves the session logged out with username and user_id
\* None, whoever was logged in before; logout leaves the session logged out
\* with both cleared.
C20_SessionConsistent ==
    /\ IF session_state.logged_in
       THEN /\ LoginSucceeded
            /\ attempt.result = PyBool(TRUE)
            /\ session_state = SessionOf(UserOf(attempt.args[1], attempt.args[2]))
       ELSE session_state = LoggedOut
    /\ LoginSucceeded => session_state.logged_in
    /\ LoginFailed => attempt.result = PyBool(FALSE) /\ session_state = LoggedOut
    /\ attempt.op = "logout" => session_state = LoggedOut
\* a login with a wrong password or an unknown username, tried while a user
\* was logged in, has logged that user out
C20_FailedLoginLogsOut ==
    /\ LoginFailed
    /\ attempt.before.logged_in
    /\ session_state = LoggedOut

\* the records of SAMPLE_RECORDS whose vendor is the query, with the same
\* letter case or ignoring it
WithVendor(query, case_sensitive) ==
    LET Is(record) == IF case_sensitive THEN record.vendor.s = query.s
                      ELSE Lower(record.vendor.s) = Lower(query.s)
    IN  SelectSeq(SAMPLE_RECORDS, Is)

\* C21: HashedIndex.search with records_list returns exactly the records
\* whose indexed field equals the query, with the same letter case when
\* case_sensitive is True and ignoring case when it is False; without
\* records_list it returns an empty list.
C21_SearchFindsEqualField ==
    Called("HashedIndex.search") =>
        call.result = IF call.arg.records_list = PyNone THEN << >>
                      ELSE WithVendor(call.arg.query, call.arg.case_sensitive)

\* the place of a stage in the run of one file
StageRank(stage) ==
    CASE stage = "save_uploaded_file" -> 1
      [] stage = "parse_document" -> 2
      [] stage = "create_receipt" -> 3
EventsOf(file) == {a \in 1..Len(batch.log) : batch.log[a].file = file}
ErrorsOf(file) == {a \in 1..Len(batch.parsing_errors) : batch.parsing_errors[a].file = file}
\* save_uploaded_file or parse_document failed for the file
StageFailed(file) ==
    \E a \in EventsOf(file) :
        batch.log[a].stage # "create_receipt" /\ ~batch.log[a].ok
\* the files are taken in order, and the stages of a file in order, each
\* stage once
InOrderOnce ==
    \A a, b \in 1..Len(batch.log) :
        a < b => \/ batch.log[a].file < batch.log[b].file
                 \/ /\ batch.log[a].file = batch.log[b].file
                    /\ StageRank(batch.log[a].stage) < StageRank(batch.log[b].stage)
\* create_receipt for a file comes after parse_document returned a record
\* for that file
StoredAfterParsed ==
    \A b \in 1..Len(batch.log) :
        batch.log[b].stage = "create_receipt" =>
            \E a \in 1..(b - 1) : /\ batch.log[a].file = batch.log[b].file
                                  /\ batch.log[a].stage = "parse_document"
                                  /\ batch.log[a].ok
\* a failed stage ends the run of its file with one error and no receipt
FailureIsFinal ==
    \A file \in 1..Len(batch.files) :
        StageFailed(file) =>
            /\ \A a \in EventsOf(file) : ~batch.log[a].ok => a = Greatest(EventsOf(file))
            /\ \A a \in EventsOf(file) : batch.log[a].stage # "create_receipt"
            /\ Cardinality(ErrorsOf(file)) = 1
\* the receipts in the database are those of the create_receipt calls made
OnlyStoredPersisted ==
    Len(tables.receipts) =
        Cardinality({a \in 1..Len(batch.log) :
                        batch.log[a].stage = "create_receipt" /\ batch.log[a].ok})
\* out of the loop, every file of the batch has been taken
AllTaken == batch.pc = "done" => \A file \in 1..Len(batch.files) : EventsOf(file) # {}
BatchSafe ==
    InOrderOnce /\ StoredAfterParsed /\ FailureIsFinal /\ OnlyStoredPersisted /\ AllTaken

LanguageIn(osd) ==
    LET Code(m) == IF m.ok THEN PyStr(Lower(Group(osd, m, 2))) ELSE PyNone
    IN  Code(Search(Cat(<<Lit("Script: "), Grp(1, Plus(Cls(WordChars))),
                          Lit("\nLanguage: "), Grp(2, Plus(Cls(WordChars)))>>),
                    osd, FALSE))

\* C23: when orientation and script detection runs on an image and its
\* output holds a language code, detect_language returns that code in lower
\* case (the language OCR is then run with); without a code it returns None
\* and OCR is run with 'eng'.
C23_DetectedLanguageReturned ==
    (/\ Called("detect_language")
     /\ tesseract
     /\ Blob[call.arg].img
     /\ Blob[call.arg].osd.ok) =>
        call.result = LanguageIn(Blob[call.arg].osd.text)

\* the range of amounts that may be reported, in hundredths
InRange(h) == h > 1 /\ h < 100000000

\* the candidate of pattern family i in a text: the number in the first
\* match of the family, if the family matches and the match is a number
FamilyCandidate(text, i) ==
    LET Number(value) == [matched |-> TRUE, number |-> value.ok,
                          h |-> IF value.ok THEN value.h ELSE 0]
        Of(lower_text, match) ==
            IF ~match.ok THEN [matched |-> FALSE, number |-> FALSE, h |-> 0]
            ELSE Number(ParseFloat(KeepChars(Group(lower_text, match, 1),
                                             DigitChars \cup {"."})))
        In(lower_text) == Of(lower_text, Search(amount_patterns[i], lower_text, TRUE))
    IN  In(Lower(text))
FamilyCandidates(text) == [i \in 1..Len(amount_patterns) |-> FamilyCandidate(text, i)]
PlausibleFamilies(cands) == {i \in DOMAIN cands : cands[i].number /\ InRange(cands[i].h)}

\* C24: an amount reported by _extract_from_text lies strictly between 0.01
\* and 1,000,000; it is the candidate of the first pattern family whose
\* candidate is a number in that range, whatever the earlier families
\* matched, and no amount is reported when no family has such a candidate.
C24_AmountIsFirstPlausible ==
    Called("_extract_from_text") =>
        LET Reported(cands, plausible) ==
                IF plausible = {} THEN "amount" \notin DOMAIN call.result
                ELSE /\ Entry(call.result, "amount") = PyFloat(cands[Least(plausible)].h)
                     /\ InRange(call.result["amount"].h)
            Among(cands) == Reported(cands, PlausibleFamilies(cands))
        IN  Among(FamilyCandidates(call.arg))

\* _extract_from_text was called on a text whose first family matches 0.00
\* and whose fourth family matches 12.50, and reported 12.50
C24_LaterFamilyReported ==
    /\ Called("_extract_from_text")
    /\ call.arg = ZeroThenIsoText
    /\ FamilyCandidate(ZeroThenIsoText, 1).matched
    /\ ~InRange(FamilyCandidate(ZeroThenIsoText, 1).h)
    /\ FamilyCandidate(ZeroThenIsoText, 4).h = 1250
    /\ Entry(call.result, "amount") = PyFloat(1250)

\* the date each line of a text yields as a keyword line: none for a line
\* without a date keyword
KeywordLineDates(text) ==
    LET Of(lower_line) ==
            IF \E k \in 1..Len(date_keywords) : Contains(lower_line, date_keywords[k])
            THEN ScanDatePatterns(lower_line, 1)
            ELSE [ok |-> FALSE]
        Each(lines) == [j \in 1..Len(lines) |-> Of(Lower(lines[j]))]
    IN  Each(Split(text, "\n"))
Yielding(dates) == {j \in DOMAIN dates : dates[j].ok}

\* C25: the transaction date reported by _extract_from_text is the date of
\* the first line, in document order, that contains a date keyword and
\* yields a date, whatever the lines before it hold; when no keyword line
\* yields a date it is the date found by the scan of the whole text, and
\* when that finds none either the field is left out.
C25_KeywordLinesFirst ==
    Called("_extract_from_text") =>
        LET Fallback(anywhere) ==
                IF anywhere.ok
                THEN Entry(call.result, "transaction_date") = anywhere.date
                ELSE "transaction_date" \notin DOMAIN call.result
            Reported(dates, yielding) ==
                IF yielding # {}
                THEN Entry(call.result, "transaction_date") = dates[Least(yielding)].date
                ELSE Fallback(ScanDatePatterns(Lower(call.arg), 1))
            Among(dates) == Reported(dates, Yielding(dates))
        IN  Among(KeywordLineDates(call.arg))

\* _extract_from_text was called on a text whose first line holds a date
\* without a keyword and whose second line holds another date after a
\* keyword, and reported the date of the second line
C25_KeywordLineBeatsEarlierDate ==
    /\ Called("_extract_from_text")
    /\ call.arg = PlainDateFirstText
    /\ Yielding(KeywordLineDates(PlainDateFirstText)) = {2}
    /\ ScanDatePatterns(Lower(PlainDateFirstText), 1).date = PyDate(2023, 2, 1)
    /\ Entry(call.result, "transaction_date") = PyDate(2023, 3, 4)

\* C26: for a text that is the date 15 January 2023 written as day, month,
\* year or year, month, day with one of the separators '-', '/', '.', or in
\* a month-name form, _extract_from_text reports 2023-01-15 as the
\* transaction date.
C26_SupportedShapesExtracted ==
    (Called("_extract_from_text") /\ call.arg \in ShapeTexts) =>
        Entry(call.result, "transaction_date") = PyDate(2023, 1, 15)

\* some named vendor pattern matches in the text
NamedPatternMatches(text) ==
    \E i \in 1..Len(vendor_patterns) : Search(vendor_patterns[i], text, TRUE).ok

\* C27: when no named vendor pattern matches, the vendor reported by
\* _extract_from_text is the first of the first seven non-empty lines that
\* satisfies the fallback criteria, title-cased with collapsed whitespace,
\* and no vendor is reported when none of them does.
C27_FirstQualifyingLine ==
    (Called("_extract_from_text") /\ ~NamedPatternMatches(call.arg)) =>
        LET Reported(lines, qualifying) ==
                IF qualifying = {} THEN "vendor_name" \notin DOMAIN call.result
                ELSE Entry(call.result, "vendor_name")
                       = PyStr(Title(JoinSpaces(SplitWords(lines[Least(qualifying)]))))
            Among(lines) == Reported(lines, {j \in DOMAIN lines : Qualifies(lines[j])})
        IN  Among(TopLines(call.arg))

\* the vendor after the first named pattern that matches: the rest of the
\* line, cut at the first junk-boundary token in any case, in title case
\* with single spaces
NamedVendorClaimed(text) ==
    LET Cut(rest) == Strip(BeforeFirst(JunkBoundary, rest, TRUE))
        After(match) == Cut(Strip(Split(Group(text, match, 1), "\n")[1]))
        By(i) == After(Search(vendor_patterns[i], text, TRUE))
        First(matching) == Title(JoinSpaces(SplitWords(By(Least(matching)))))
    IN  First({i \in 1..Len(vendor_patterns) : Search(vendor_patterns[i], text, TRUE).ok})

\* C28: for a text with a named vendor pattern, the vendor reported by
\* _extract_from_text is the text after the keyword up to the line break,
\* cut at the first junk-boundary token whatever its case, in title case
\* with collapsed whitespace.
C28_BoundaryCutsInAnyCase ==
    (Called("_extract_from_text") /\ call.arg \in NamedVendorTexts) =>
        Entry(call.result, "vendor_name") = PyStr(NamedVendorClaimed(call.arg))

\* C29: when the first amount candidate of a text carries a currency symbol
\* and is discarded, and the amount that is reported comes from a match
\* without a symbol, _extract_from_text reports that amount with the default
\* currency, not with the currency of the discarded candidate's symbol.
C29_CurrencyOfReportedMatch ==
    Called("_extract_from_text")
    => \A sample \in DiscardedSymbolAmounts :
          call.arg = sample.text
          => /\ Entry(call.result, "amount") = PyFloat(sample.h)
             /\ Entry(call.result, "currency") = PyStr(DefaultExtractCurrency)
             /\ Entry(call.result, "currency")
                  # PyStr(CurrencyOfSymbolClaimed(sample.symbol))

\* the text parse_document acquired holds more than whitespace: the decoded
\* text of a text file, the page text of a PDF, the text OCR read from an image
AcquiredSomeText ==
    /\ Called("parse_document")
    /\ ParsedContent \in Contents
    /\ \/ /\ validate_file_type(PyStr(call.arg)) = PyStr("text")
          /\ Strip(DecodedText(Blob[ParsedContent])) # ""
       \/ /\ validate_file_type(PyStr(call.arg)) = PyStr("pdf")
          /\ Blob[ParsedContent].pdf.ok /\ Strip(Blob[ParsedContent].pdf.text) # ""
       \/ /\ validate_file_type(PyStr(call.arg)) = PyStr("image")
          /\ tesseract /\ Blob[ParsedContent].img /\ Blob[ParsedContent].ocr.ok
          /\ Strip(Blob[ParsedContent].ocr.text) # ""

\* the call fails before any text is acquired: the type is unsupported, the
\* file cannot be read, or a text file decodes to nothing
FailsBeforeText ==
    \/ validate_file_type(PyStr(call.arg)) = PyNone
    \/ ParsedContent \notin Contents
    \/ /\ validate_file_type(PyStr(call.arg)) = PyStr("text")
       /\ DecodedText(Blob[ParsedContent]) = ""

\* the outcome is the ParsingError of validation, raised after extraction
ValidationFailure(outcome) ==
    /\ outcome.kind = "ParsingError"
    /\ outcome.message = "Data validation failed after extraction: "
    /\ outcome.violated # {}
    /\ Last(outcome.trace) = "ParsedReceiptData"

====
